---------------------------- MODULE Spec2Model ----------------------------
(***************************************************************************)
(* A model of the CRRLpy line-shape and model-grid library                 *)
(* (src/crrlpy/crrls.py, src/crrlpy/models/rrlmod.py).                     *)
(*                                                                         *)
(* The library is a collection of synchronous functions.  A state of the   *)
(* model is one call site: the arguments a caller holds (args), what each  *)
(* function has handed back so far (ret), the model-grid directory (disk)  *)
(* and the files read from it (reads).  One action is one function call    *)
(* run to completion.                                                      *)
(*                                                                         *)
(* Real arithmetic is exact: numbers are kept as (p + q*sqrt(n))/r over    *)
(* arbitrary-precision integers, so equalities and orderings of the        *)
(* closed-form expressions are decided, not approximated.                  *)
(***************************************************************************)
EXTENDS Integers, Sequences, FiniteSets, Bags, TLC

VARIABLES args, ret, disk, reads

vars == <<args, ret, disk, reads>>

(***************************************************************************)
(* Results of a call.                                                      *)
(***************************************************************************)
NoRet == [kind |-> "none"]

Return(v) == [kind |-> "return", val |-> v]

Raise(e) == [kind |-> "raise", exc |-> e]
(***************************************************************************)
(* Arbitrary-precision naturals: little-endian sequences of limbs in base  *)
(* Base, without leading zero limbs; <<>> is zero.  They stand for the     *)
(* exact values of the float expressions of the source.                    *)
(*                                                                         *)
(* The arithmetic is written as functions, which take their arguments by   *)
(* value, over one recursive evaluator: F[x, y] is Calc(<<"F", x, y>>),    *)
(* and Calc_F is the case of Calc for F.                                   *)
(***************************************************************************)
RECURSIVE Calc(_)

Base == 10000

Nats == Seq(Nat)

Max(a, b) == IF a >= b THEN a ELSE b

Min(a, b) == IF a <= b THEN a ELSE b

\* limb i of x; zero beyond the most significant limb
NLimb(x, i) == IF i >= 1 /\ i <= Len(x) THEN x[i] ELSE 0

\* drop the leading zero limbs
NTrim[s \in Nats] ==
    LET n == CHOOSE i \in 0..Len(s) :
                 /\ i = 0 \/ s[i] # 0
                 /\ \A j \in (i + 1)..Len(s) : s[j] = 0
    IN  SubSeq(s, 1, n)

\* a natural below Base^3
NFromInt[k \in Nat] == NTrim[<<k % Base, (k \div Base) % Base, k \div (Base * Base)>>]

\* x * Base^k
NShift[x \in Nats, k \in Nat] == IF x = <<>> THEN <<>> ELSE [i \in 1..k |-> 0] \o x

\* x + y: limb sums, then the carries; a carry reaches limb i from a limb
\* below that overflows, through limbs that are full
NAdd[x \in Nats, y \in Nats] == Calc(<<"NAdd", x, y>>)

Calc_NAdd(x, y) ==
    LET n == Max(Len(x), Len(y)) + 1
        s == SubSeq([i \in 1..n |-> NLimb(x, i) + NLimb(y, i)], 1, n)
        c(i) == IF \E j \in 1..(i - 1) :
                       s[j] >= Base /\ \A k \in (j + 1)..(i - 1) : s[k] = Base - 1
                THEN 1 ELSE 0
    IN  NTrim[SubSeq([i \in 1..n |-> (s[i] + c(i)) % Base], 1, n)]

\* x - y for x >= y: limb differences, then the borrows
NSub[x \in Nats, y \in Nats] == Calc(<<"NSub", x, y>>)

Calc_NSub(x, y) ==
    LET n == Len(x)
        t == SubSeq([i \in 1..n |-> x[i] - NLimb(y, i)], 1, n)
        bw(i) == IF \E j \in 1..(i - 1) :
                        t[j] < 0 /\ \A k \in (j + 1)..(i - 1) : t[k] = 0
                 THEN 1 ELSE 0
    IN  NTrim[SubSeq([i \in 1..n |-> (t[i] - bw(i) + Base) % Base], 1, n)]

\* -1, 0, 1 as x <, =, > y
NCmp[x \in Nats, y \in Nats] == Calc(<<"NCmp", x, y>>)

Calc_NCmp(x, y) ==
    IF Len(x) < Len(y) THEN -1
    ELSE IF Len(x) > Len(y) THEN 1
    ELSE IF x = y THEN 0
    ELSE LET i == CHOOSE i \in 1..Len(x) :
                      x[i] # y[i] /\ \A j \in (i + 1)..Len(x) : x[j] = y[j]
         IN  IF x[i] < y[i] THEN -1 ELSE 1

\* x * k for a limb-sized k: the low halves of the limb products plus the
\* high halves one limb up
NMulLimb[x \in Nats, k \in Nat] == Calc(<<"NMulLimb", x, k>>)

Calc_NMulLimb(x, k) ==
    LET n == Len(x)
        p == SubSeq([i \in 1..n |-> x[i] * k], 1, n)
    IN  NAdd[NTrim[SubSeq([i \in 1..n |-> p[i] % Base], 1, n)],
             NShift[NTrim[SubSeq([i \in 1..n |-> p[i] \div Base], 1, n)], 1]]

\* the sum of the numbers f[i]
SumOver(f) == BagCardinality([i \in DOMAIN f |-> f[i] + 1]) - Cardinality(DOMAIN f)

\* x * y: the column sums of the limb products, each below Base^3, then
\* their three limbs added up
NMul[x \in Nats, y \in Nats] == Calc(<<"NMul", x, y>>)

Calc_NMul(x, y) ==
    LET n == Len(x) + Len(y)
        col == SubSeq([k \in 1..n |->
                   SumOver([i \in Max(1, k + 1 - Len(y))..Min(Len(x), k) |->
                               x[i] * y[k + 1 - i]])], 1, n)
    IN  NAdd[NAdd[NTrim[SubSeq([k \in 1..n |-> col[k] % Base], 1, n)],
                  NShift[NTrim[SubSeq([k \in 1..n |-> (col[k] \div Base) % Base], 1, n)], 1]],
             NShift[NTrim[SubSeq([k \in 1..n |-> col[k] \div (Base * Base)], 1, n)], 2]]

\* N \div D and N % D, D > 0: schoolbook division with both numbers scaled
\* so that the top limb of the divisor is at least Base/2; the quotient limb
\* is then one of three candidates
NDivLoop[Ns \in Nats, Ds \in Nats, i \in Nat, quot \in Nats, rem \in Nats] ==
    IF i = 0 THEN NTrim[quot]
    ELSE LET R == NTrim[<<Ns[i]>> \o rem]
             m == Len(Ds)
             qhat == Min(Base - 1, (NLimb(R, m + 1) * Base + NLimb(R, m)) \div Ds[m])
             q == CHOOSE c \in Max(0, qhat - 2)..qhat :
                      /\ NCmp[NMulLimb[Ds, c], R] <= 0
                      /\ NCmp[R, NMulLimb[Ds, c + 1]] < 0
         IN  NDivLoop[Ns, Ds, i - 1, <<q>> \o quot, NSub[R, NMulLimb[Ds, q]]]

NDivMod[N \in Nats, D \in Nats] == Calc(<<"NDivMod", N, D>>)

Calc_NDivMod(N, D) ==
    LET f == Base \div (D[Len(D)] + 1)
        Ns == NMulLimb[N, f]
        quot == NDivLoop[Ns, NMulLimb[D, f], Len(Ns), <<>>, <<>>]
    IN  [quot |-> quot, rem |-> NSub[N, NMul[quot, D]]]

(***************************************************************************)
(* Signed integers over the naturals above.                                *)
(***************************************************************************)
Ints == [neg : BOOLEAN, mag : Nats]

ZMk[neg \in BOOLEAN, mag \in Nats] == [neg |-> (neg /\ mag # <<>>), mag |-> mag]

ZInt[k \in Int] == IF k < 0 THEN ZMk[TRUE, NFromInt[-k]] ELSE ZMk[FALSE, NFromInt[k]]

ZNat[x \in Nats] == ZMk[FALSE, x]

ZSgn[x \in Ints] == IF x.mag = <<>> THEN 0 ELSE IF x.neg THEN -1 ELSE 1

ZNeg[x \in Ints] == ZMk[~x.neg, x.mag]

ZAdd[x \in Ints, y \in Ints] == Calc(<<"ZAdd", x, y>>)

Calc_ZAdd(x, y) ==
    IF x.neg = y.neg THEN ZMk[x.neg, NAdd[x.mag, y.mag]]
    ELSE IF NCmp[x.mag, y.mag] >= 0 THEN ZMk[x.neg, NSub[x.mag, y.mag]]
    ELSE ZMk[y.neg, NSub[y.mag, x.mag]]

ZSub[x \in Ints, y \in Ints] == ZAdd[x, ZNeg[y]]

ZMul[x \in Ints, y \in Ints] == ZMk[x.neg # y.neg, NMul[x.mag, y.mag]]

(***************************************************************************)
(* Real numbers of the form (p + q*sqrt(n))/r, r > 0: the values the       *)
(* width formulas take on rational inputs.                                 *)
(***************************************************************************)
Surds == [p : Ints, q : Ints, n : Nats, r : Nats]

\* limb i is zero in all three numbers
SCommonZero(p, q, r, i) == r[i] = 0 /\ NLimb(p.mag, i) = 0 /\ NLimb(q.mag, i) = 0

\* x \div Base^k
NDrop(x, k) == IF Len(x) <= k THEN <<>> ELSE SubSeq(x, k + 1, Len(x))

\* (p + q*sqrt(n))/r with the powers of Base the three numbers share removed
SMk[p \in Ints, q \in Ints, n \in Nats, r \in Nats] == Calc(<<"SMk", p, q, n, r>>)

Calc_SMk(p, q, n, r) ==
    LET k == CHOOSE k \in 0..(Len(r) - 1) :
                 /\ \A i \in 1..k : SCommonZero(p, q, r, i)
                 /\ ~SCommonZero(p, q, r, k + 1)
    IN  [p |-> ZMk[p.neg, NDrop(p.mag, k)],
         q |-> ZMk[q.neg, NDrop(q.mag, k)],
         n |-> IF q.mag = <<>> THEN <<>> ELSE n,
         r |-> NDrop(r, k)]

\* the rational k/m, m > 0
SRat[k \in Int, m \in Nat] == Calc(<<"SRat", k, m>>)

Calc_SRat(k, m) == SMk[ZInt[k], ZInt[0], <<>>, NFromInt[m]]

\* the integer k
SInt[k \in Int] == [p |-> ZInt[k], q |-> ZInt[0], n |-> <<>>, r |-> <<1>>]

\* the radicand two operands share (a rational has none)
SField[x \in Surds, y \in Surds] ==
    CASE x.q.mag = <<>> -> y.n
      [] y.q.mag = <<>> -> x.n
      [] x.n = y.n -> x.n

SNeg[x \in Surds] == Calc(<<"SNeg", x>>)

Calc_SNeg(x) == SMk[ZNeg[x.p], ZNeg[x.q], x.n, x.r]

SAdd[x \in Surds, y \in Surds] == Calc(<<"SAdd", x, y>>)

Calc_SAdd(x, y) ==
    IF x.r = y.r
    THEN SMk[ZAdd[x.p, y.p], ZAdd[x.q, y.q], SField[x, y], x.r]
    ELSE SMk[ZAdd[ZMul[x.p, ZNat[y.r]], ZMul[y.p, ZNat[x.r]]],
             ZAdd[ZMul[x.q, ZNat[y.r]], ZMul[y.q, ZNat[x.r]]],
             SField[x, y],
             NMul[x.r, y.r]]

SSub[x \in Surds, y \in Surds] == SAdd[x, SNeg[y]]

SMul[x \in Surds, y \in Surds] == Calc(<<"SMul", x, y>>)

Calc_SMul(x, y) ==
    LET n == SField[x, y]
    IN  SMk[ZAdd[ZMul[x.p, y.p], ZMul[ZMul[x.q, y.q], ZNat[n]]],
            ZAdd[ZMul[x.p, y.q], ZMul[x.q, y.p]],
            n,
            NMul[x.r, y.r]]

\* 1/x for x # 0: r/p, r*sqrt(n)/(q*n), or r*(p - q*sqrt(n))/(p^2 - q^2*n)
SInv[x \in Surds] == Calc(<<"SInv", x>>)

Calc_SInv(x) ==
    LET nrm == ZSub[ZMul[x.p, x.p], ZMul[ZMul[x.q, x.q], ZNat[x.n]]]
        flip == nrm.neg
    IN  CASE x.q.mag = <<>> /\ x.p.mag # <<>> ->
             SMk[ZMk[x.p.neg, x.r], ZInt[0], <<>>, x.p.mag]
          [] x.q.mag # <<>> /\ x.p.mag = <<>> /\ x.n # <<>> ->
             SMk[ZInt[0], ZMk[x.q.neg, x.r], x.n, NMul[x.q.mag, x.n]]
          [] x.q.mag # <<>> /\ x.p.mag # <<>> /\ nrm.mag # <<>> ->
             SMk[ZMk[x.p.neg # flip, NMul[x.p.mag, x.r]],
                 ZMk[(~x.q.neg) # flip, NMul[x.q.mag, x.r]],
                 x.n,
                 nrm.mag]

SDiv[x \in Surds, y \in Surds] == SMul[x, SInv[y]]

\* sign of p + q*sqrt(n)
SignSurd[p \in Ints, q \in Ints, n \in Nats] == Calc(<<"SignSurd", p, q, n>>)

Calc_SignSurd(p, q, n) ==
    LET sp == ZSgn[p]
        sq == IF n = <<>> THEN 0 ELSE ZSgn[q]
    IN  IF sq = 0 THEN sp
        ELSE IF sp = 0 \/ sp = sq THEN sq
        ELSE sp * NCmp[NMul[p.mag, p.mag], NMul[NMul[q.mag, q.mag], n]]

\* sign of u + v*sqrt(n1) + w*sqrt(n2)
Sign3[u \in Ints, v \in Ints, n1 \in Nats, w \in Ints, n2 \in Nats] == Calc(<<"Sign3", u, v, n1, w, n2>>)

Calc_Sign3(u, v, n1, w, n2) ==
    LET sA == SignSurd[u, v, n1]
        sB == IF n2 = <<>> THEN 0 ELSE ZSgn[w]
    IN  IF sA = 0 THEN sB
        ELSE IF sB = 0 \/ sA = sB THEN sA
        ELSE sA * SignSurd[
                 ZSub[ZAdd[ZMul[u, u], ZMul[ZMul[v, v], ZNat[n1]]],
                      ZMul[ZMul[w, w], ZNat[n2]]],
                 ZMul[ZInt[2], ZMul[u, v]],
                 n1]

\* -1, 0, 1 as x <, =, > y; the two may have different radicands
SCmp[x \in Surds, y \in Surds] == Calc(<<"SCmp", x, y>>)

Calc_SCmp(x, y) ==
    LET u == IF x.r = y.r THEN ZSub[x.p, y.p]
             ELSE ZSub[ZMul[x.p, ZNat[y.r]], ZMul[y.p, ZNat[x.r]]]
        v == IF x.r = y.r THEN x.q ELSE ZMul[x.q, ZNat[y.r]]
        w == IF x.r = y.r THEN ZNeg[y.q] ELSE ZNeg[ZMul[y.q, ZNat[x.r]]]
    IN  IF x.n = y.n \/ v.mag = <<>> \/ w.mag = <<>>
        THEN SignSurd[u, ZAdd[v, w], IF v.mag = <<>> THEN y.n ELSE x.n]
        ELSE Sign3[u, v, x.n, w, y.n]

SLess[x \in Surds, y \in Surds] == SCmp[x, y] < 0

SEq[x \in Surds, y \in Surds] == SCmp[x, y] = 0

SZero == SInt[0]

\* r = Base^(2k): the square of Base^k
NIsEvenPower[r \in Nats] ==
    /\ Len(r) % 2 = 1
    /\ r[Len(r)] = 1
    /\ \A i \in 1..(Len(r) - 1) : r[i] = 0

NHalfPower[r \in Nats] == NShift[<<1>>, (Len(r) - 1) \div 2]

\* q*sqrt(n)/r with the squares 4 taken out of n: sqrt(4*m) = 2*sqrt(m);
\* 4 divides n when it divides its lowest limb, and n/4 is 2500*n/Base
SRoot[q \in Nats, n \in Nats, r \in Nats] ==
    IF n # <<>> /\ n[1] % 4 = 0
    THEN SRoot[NMulLimb[q, 2], NDrop(NMulLimb[n, 2500], 1), r]
    ELSE SMk[ZInt[0], ZNat[q], n, r]

\* np.sqrt of a rational x >= 0
SSqrt[x \in Surds] == Calc(<<"SSqrt", x>>)

Calc_SSqrt(x) ==
    CASE x.q.mag = <<>> /\ ~x.p.neg ->
        IF x.p.mag = <<>> THEN SZero
        ELSE IF NIsEvenPower[x.r]
        THEN SRoot[<<1>>, x.p.mag, NHalfPower[x.r]]
        ELSE SRoot[<<1>>, NMul[x.p.mag, x.r], x.r]

\* np.power(x, 2)
SSq[x \in Surds] == SMul[x, x]

(***************************************************************************)
(* IEEE-754 binary64 values, for the code whose results depend on          *)
(* rounding (the codec of rrlmod.py).  A positive double is M * 2^E with   *)
(* 2^52 <= M < 2^53; zero has M = <<>>.  Every operation rounds the exact  *)
(* result to the nearest double, ties to even.  Doubles of the subnormal   *)
(* and overflow ranges are not modelled.                                   *)
(***************************************************************************)
Floats == [M : Nats, E : Int]

\* 2^52, 2^53
P52 == <<496, 2737, 5996, 4503>>

P53 == <<992, 5474, 1992, 9007>>

NPow2[k \in Nat] == IF k < 13 THEN <<2^k>> ELSE NMulLimb[NPow2[k - 13], 8192]

NPow10[k \in Nat] == NShift[<<10^(k % 4)>>, k \div 4]

NIsOdd[x \in Nats] == x # <<>> /\ x[1] % 2 = 1

\* N/D rounded to the nearest integer, ties to even
NRoundDiv[N \in Nats, D \in Nats] == Calc(<<"NRoundDiv", N, D>>)

Calc_NRoundDiv(N, D) ==
    LET qr == NDivMod[N, D]
        c == NCmp[NMulLimb[qr.rem, 2], D]
    IN  IF c > 0 \/ (c = 0 /\ NIsOdd[qr.quot])
        THEN NAdd[qr.quot, <<1>>]
        ELSE qr.quot

\* the number of bits of x > 0, or one less
NBitsBelow[x \in Nats] ==
    LET top == x[Len(x)]
        b == CHOOSE b \in 1..14 : 2^(b - 1) <= top /\ top < 2^b
    IN  ((Len(x) - 1) * 132877) \div 10000 + b

\* N and D scaled by the power of two e
FScaled[N \in Nats, D \in Nats, e \in Int] ==
    [N |-> IF e < 0 THEN NMul[N, NPow2[-e]] ELSE N,
     D |-> IF e > 0 THEN NMul[D, NPow2[e]] ELSE D,
     e |-> e]

\* N and D scaled by the power of two e with 2^52 <= N / (D * 2^e) < 2^53
FScale[N \in Nats, D \in Nats] == Calc(<<"FScale", N, D>>)

Calc_FScale(N, D) ==
    LET est == NBitsBelow[N] - NBitsBelow[D] - 53
        e == CHOOSE e \in (est - 3)..(est + 3) :
                 LET s == FScaled[N, D, e]
                 IN  /\ NCmp[NMul[s.D, P52], s.N] <= 0
                     /\ NCmp[s.N, NMul[s.D, P53]] < 0
    IN  FScaled[N, D, e]

FZero == [M |-> <<>>, E |-> 0]

\* the double nearest to N/D (N >= 0, D > 0)
FRound[N \in Nats, D \in Nats] == Calc(<<"FRound", N, D>>)

Calc_FRound(N, D) ==
    IF N = <<>> THEN FZero
    ELSE LET s == FScale[N, D]
             M == NRoundDiv[s.N, s.D]
         IN  IF M = P53 THEN [M |-> P52, E |-> s.e + 1]
             ELSE [M |-> M, E |-> s.e]

FShift[x \in Floats, k \in Int] == IF x.M = <<>> THEN x ELSE [M |-> x.M, E |-> x.E + k]

\* float * float and float / float
FMul[x \in Floats, y \in Floats] == Calc(<<"FMul", x, y>>)

Calc_FMul(x, y) == FShift[FRound[NMul[x.M, y.M], <<1>>], x.E + y.E]

FDiv[x \in Floats, y \in Floats] == Calc(<<"FDiv", x, y>>)

Calc_FDiv(x, y) == FShift[FRound[x.M, y.M], x.E - y.E]

\* a double as the fraction num/den
FNum[x \in Floats] == Calc(<<"FNum", x>>)

Calc_FNum(x) == IF x.E >= 0 THEN NMul[x.M, NPow2[x.E]] ELSE x.M

FDen[x \in Floats] == Calc(<<"FDen", x>>)

Calc_FDen(x) == IF x.E >= 0 THEN <<1>> ELSE NPow2[-x.E]

\* float.is_integer()
FIsInteger[x \in Floats] == Calc(<<"FIsInteger", x>>)

Calc_FIsInteger(x) ==
    x.M = <<>> \/ x.E >= 0 \/ NDivMod[x.M, NPow2[-x.E]].rem = <<>>

\* np.power(10., k) for an integer-valued k
FPow10[k \in Int] == Calc(<<"FPow10", k>>)

Calc_FPow10(k) ==
    IF k >= 0 THEN FRound[NPow10[k], <<1>>] ELSE FRound[<<1>>, NPow10[-k]]

\* 10^k <= N/D
NPow10Le[k \in Int, N \in Nats, D \in Nats] ==
    IF k >= 0 THEN NCmp[NMul[D, NPow10[k]], N] <= 0
    ELSE NCmp[D, NMul[N, NPow10[-k]]] <= 0

\* the integer k with 10^k <= N/D < 10^(k+1)
Log10Floor[N \in Nats, D \in Nats] == Calc(<<"Log10Floor", N, D>>)

Calc_Log10Floor(N, D) ==
    LET est == 4 * (Len(N) - Len(D))
    IN  CHOOSE k \in (est - 4)..(est + 4) :
            NPow10Le[k, N, D] /\ ~NPow10Le[k + 1, N, D]

\* np.floor(np.log10(x)) for a double x > 0: log10 of the double nearest to
\* a power of ten rounds to that integer, also when the double lies below it
FFloorLog10[x \in Floats] == Calc(<<"FFloorLog10", x>>)

Calc_FFloorLog10(x) ==
    LET k == Log10Floor[FNum[x], FDen[x]]
    IN  IF FPow10[k + 1] = x THEN k + 1 ELSE k

(***************************************************************************)
(* crrls.py: dv_minus_doppler and dv_minus_doppler2.                       *)
(* Both return the pair (dL, ddL); ddL is the non-negative root of the     *)
(* expression kept in ddL.sqrt_of.  The early return hands back the        *)
(* scalar 0.                                                               *)
(***************************************************************************)
Pair(dL, ddL) == [shape |-> "pair", dL |-> dL, ddL |-> ddL]

Scalar(k) == [shape |-> "scalar", num |-> k]

\* a = 0.5346, b = 0.2166
dmd_a == SRat[5346, 10000]

dmd_b == SRat[2166, 10000]

\* mutant of dmd_d: the second term added instead of subtracted
dmd_d_plus(dV, dD) ==
    SAdd[SSq[SMul[SMul[SInt[2], dmd_a], dV]],
         SMul[SMul[SInt[4], SSub[dmd_b, SMul[dmd_a, dmd_a]]],
              SSub[SSq[dD], SSq[dV]]]]

\* d of dv_minus_doppler
dmd_d(dV, dD) ==
    LET a == dmd_a
        b == dmd_b
    IN  SSub[SSq[SMul[SMul[SInt[2], a], dV]],
             SMul[SMul[SInt[4], SSub[b, SMul[a, a]]],
                  SSub[SSq[dD], SSq[dV]]]]

\* the root test of dv_minus_doppler: dL_m < dV
dmd_takes_m(dL_m, dV) == SLess[dL_m, dV]

\* mutant of dmd_dL_p: the root taken with the other sign
dmd_dL_p_minus(dV, d) ==
    SDiv[SSub[SMul[SMul[SInt[-2], dmd_a], dV], SSqrt[d]],
         SMul[SInt[2], SSub[dmd_b, SMul[dmd_a, dmd_a]]]]

\* dL_p of dv_minus_doppler
dmd_dL_p(dV, d) ==
    LET a == dmd_a
        b == dmd_b
    IN  SDiv[SAdd[SMul[SMul[SInt[-2], a], dV], SSqrt[d]],
             SMul[SInt[2], SSub[b, SMul[a, a]]]]

\* dL_m of dv_minus_doppler
dmd_dL_m(dV, d) ==
    LET a == dmd_a
        b == dmd_b
    IN  SDiv[SSub[SMul[SMul[SInt[-2], a], dV], SSqrt[d]],
             SMul[SInt[2], SSub[b, SMul[a, a]]]]

\* ddL1 of dv_minus_doppler; sgn is -1 in the dL_m branch, +1 in the dL_p branch
dmd_ddL1(sgn, dV, dD) ==
    LET a == dmd_a
        b == dmd_b
        root == SSqrt[dmd_d(dV, dD)]
        frac == SDiv[SAdd[SMul[SMul[a, a], dV],
                          SMul[SMul[SInt[8], SSub[b, SMul[a, a]]], dV]],
                     root]
    IN  SDiv[SAdd[SMul[SInt[-2], a], SMul[SInt[sgn], frac]],
             SMul[SInt[2], SSub[b, SMul[a, a]]]]

\* ddL2 of dv_minus_doppler
dmd_ddL2(dV, dD) ==
    LET a == dmd_a
        b == dmd_b
    IN  SDiv[SMul[SMul[SInt[4], SSub[b, SMul[a, a]]], dD],
             SSqrt[dmd_d(dV, dD)]]

\* ddL of dv_minus_doppler: sqrt((ddL1*ddV)^2 + (ddL2*ddV)^2); ddD is not read
dmd_ddL(ddL1, ddL2, ddV, ddD) ==
    [sqrt_of |-> SAdd[SSq[SMul[ddL1, ddV]], SSq[SMul[ddL2, ddV]]]]

\* the two roots dL_p and dL_m of dv_minus_doppler
dmd_roots(dV, dD) == Calc(<<"dmd_roots", dV, dD>>)

Calc_dmd_roots(dV, dD) ==
    [dL_p |-> dmd_dL_p(dV, dmd_d(dV, dD)), dL_m |-> dmd_dL_m(dV, dmd_d(dV, dD))]

dv_minus_doppler(dV, ddV, dD, ddD) == Calc(<<"dv_minus_doppler", dV, ddV, dD, ddD>>)

Calc_dv_minus_doppler(dV, ddV, dD, ddD) ==
    LET d == dmd_d(dV, dD)
        dL_p == dmd_dL_p(dV, d)
        dL_m == dmd_dL_m(dV, d)
        take_m == dmd_takes_m(dL_m, dV)
        dL == IF take_m THEN dL_m ELSE dL_p
        ddL1 == IF take_m THEN dmd_ddL1(-1, dV, dD) ELSE dmd_ddL1(1, dV, dD)
        ddL2 == dmd_ddL2(dV, dD)
    IN  IF SLess[d, SZero]
        THEN Return(Scalar(0))
        ELSE Return(Pair(dL, dmd_ddL(ddL1, ddL2, ddV, ddD)))

\* den, dif, d of dv_minus_doppler2
dmd2_den == SSub[SMul[dmd_a, dmd_a], dmd_b]

dmd2_dif(dV, dD) == SSub[SSq[dV], SSq[dD]]

dmd2_d(dV, dD) ==
    SSub[SSq[SMul[dmd_a, dV]], SMul[dmd2_den, dmd2_dif(dV, dD)]]

\* mutant of dmd2_takes_m: the comparison turned round
dmd2_takes_m_flipped(dL_m, dV) == SLess[dV, dL_m]

\* the root test of dv_minus_doppler2: dL_m < dV
dmd2_takes_m(dL_m, dV) == SLess[dL_m, dV]

\* dL_p of dv_minus_doppler2
dmd2_dL_p(dV, d) == SDiv[SAdd[SMul[dmd_a, dV], SSqrt[d]], dmd2_den]

\* dL_m of dv_minus_doppler2
dmd2_dL_m(dV, d) == SDiv[SSub[SMul[dmd_a, dV], SSqrt[d]], dmd2_den]

\* ddL1 of dv_minus_doppler2; sgn is +1 in the dL_m branch, -1 in the dL_p branch
dmd2_ddL1(sgn, dV, dD) ==
    LET a == dmd_a
        den == dmd2_den
        root == SSqrt[dmd2_d(dV, dD)]
        frac == SDiv[SSub[SMul[SMul[a, a], dV], SMul[dV, den]], root]
    IN  SDiv[SAdd[a, SMul[SInt[sgn], frac]], den]

\* ddL2 of dv_minus_doppler2
dmd2_ddL2(dV, dD) == SDiv[dD, SSqrt[dmd2_d(dV, dD)]]

\* ddL of dv_minus_doppler2; ddD is not read
dmd2_ddL(ddL1, ddL2, ddV, ddD) ==
    [sqrt_of |-> SAdd[SSq[SMul[ddL1, ddV]], SSq[SMul[ddL2, ddV]]]]

\* the two roots dL_p and dL_m of dv_minus_doppler2
dmd2_roots(dV, dD) == Calc(<<"dmd2_roots", dV, dD>>)

Calc_dmd2_roots(dV, dD) ==
    [dL_p |-> dmd2_dL_p(dV, dmd2_d(dV, dD)), dL_m |-> dmd2_dL_m(dV, dmd2_d(dV, dD))]

dv_minus_doppler2(dV, ddV, dD, ddD) == Calc(<<"dv_minus_doppler2", dV, ddV, dD, ddD>>)

Calc_dv_minus_doppler2(dV, ddV, dD, ddD) ==
    LET d == dmd2_d(dV, dD)
        dL_p == dmd2_dL_p(dV, d)
        dL_m == dmd2_dL_m(dV, d)
        take_m == dmd2_takes_m(dL_m, dV)
        dL == IF take_m THEN dL_m ELSE dL_p
        ddL1 == IF take_m THEN dmd2_ddL1(1, dV, dD) ELSE dmd2_ddL1(-1, dV, dD)
        ddL2 == dmd2_ddL2(dV, dD)
    IN  IF SLess[d, SZero]
        THEN Return(Scalar(0))
        ELSE Return(Pair(dL, dmd2_ddL(ddL1, ddL2, ddV, ddD)))

(***************************************************************************)
(* SpecWidth: a caller holding (dV, ddV, dD, ddD) calls the two            *)
(* implementations, in either order.                                       *)
(***************************************************************************)
MaxWidth == 4

MaxErr == 2

WidthFns == {"dv_minus_doppler", "dv_minus_doppler2"}

WidthInit ==
    /\ args \in [dV : 1..MaxWidth, ddV : 0..MaxErr, dD : 0..MaxWidth, ddD : 0..MaxErr]
    /\ ret = [f \in WidthFns |-> NoRet]
    /\ disk = {}
    /\ reads = <<>>

Call_dv_minus_doppler ==
    /\ ret["dv_minus_doppler"] = NoRet
    /\ ret' = [ret EXCEPT !["dv_minus_doppler"] =
                 dv_minus_doppler(SInt[args.dV], SInt[args.ddV],
                                  SInt[args.dD], SInt[args.ddD])]
    /\ UNCHANGED <<args, disk, reads>>

Call_dv_minus_doppler2 ==
    /\ ret["dv_minus_doppler2"] = NoRet
    /\ ret' = [ret EXCEPT !["dv_minus_doppler2"] =
                 dv_minus_doppler2(SInt[args.dV], SInt[args.ddV],
                                   SInt[args.dD], SInt[args.ddD])]
    /\ UNCHANGED <<args, disk, reads>>

WidthNext == Call_dv_minus_doppler \/ Call_dv_minus_doppler2

SpecWidth == WidthInit /\ [][WidthNext]_vars


(***************************************************************************)
(* Claims about dv_minus_doppler / dv_minus_doppler2 (SpecWidth).          *)
(***************************************************************************)
WidthRet1 == ret["dv_minus_doppler"]

WidthRet2 == ret["dv_minus_doppler2"]

WidthBothPairs ==
    /\ WidthRet1 # NoRet /\ WidthRet1.val.shape = "pair"
    /\ WidthRet2 # NoRet /\ WidthRet2.val.shape = "pair"

\* C1: once both implementations have returned for the same (dV, ddV, dD, ddD),
\* both returned a pair and the two Lorentz widths dL are the same real number;
\* the root called dL_p in dv_minus_doppler is the root called dL_m in
\* dv_minus_doppler2 and the other way round.
C1_SameLorentzWidth ==
    (WidthRet1 # NoRet /\ WidthRet2 # NoRet) =>
        /\ WidthBothPairs
        /\ SEq[WidthRet1.val.dL, WidthRet2.val.dL]
        /\ SEq[dmd_roots(SInt[args.dV], SInt[args.dD]).dL_p,
               dmd2_roots(SInt[args.dV], SInt[args.dD]).dL_m]
        /\ SEq[dmd_roots(SInt[args.dV], SInt[args.dD]).dL_m,
               dmd2_roots(SInt[args.dV], SInt[args.dD]).dL_p]

C1_Witness ==
    /\ WidthBothPairs
    /\ args.dV = 2 /\ args.dD = 1
    /\ SLess[SZero, WidthRet1.val.dL]

\* C2 (as claimed): once both implementations have returned, the two
\* propagated uncertainties ddL are the same real number.
C2_SameUncertainty ==
    WidthBothPairs =>
        SEq[WidthRet1.val.ddL.sqrt_of, WidthRet2.val.ddL.sqrt_of]

\* C4: with dV > 0, the Lorentz width either implementation returns is below
\* dV, and the root it discarded is not.
C4_LorentzBelowTotal ==
    /\ WidthRet1 # NoRet =>
         /\ WidthRet1.val.shape = "pair"
         /\ SLess[WidthRet1.val.dL, SInt[args.dV]]
         /\ ~SLess[dmd_roots(SInt[args.dV], SInt[args.dD]).dL_m, SInt[args.dV]]
    /\ WidthRet2 # NoRet =>
         /\ WidthRet2.val.shape = "pair"
         /\ SLess[WidthRet2.val.dL, SInt[args.dV]]
         /\ ~SLess[dmd2_roots(SInt[args.dV], SInt[args.dD]).dL_p, SInt[args.dV]]

\* the tightest case: no Doppler width, dL just below dV
C4_Witness ==
    /\ WidthBothPairs
    /\ args.dD = 0 /\ args.dV = MaxWidth
    /\ SLess[SInt[args.dV - 1], WidthRet1.val.dL]


(***************************************************************************)
(* rrlmod.py: the parameter codec str2val / val2str.                       *)
(*                                                                         *)
(* A Python string is a sequence of one-character strings.  Python values  *)
(* are tagged: the int 0 of the except branch is PyInt(0), a float is      *)
(* PyFloat(neg, f) with f a double as above.                               *)
(***************************************************************************)
Digits == <<"0", "1", "2", "3", "4", "5", "6", "7", "8", "9">>

IsDigit(c) == \E k \in 1..10 : Digits[k] = c

DigitVal(c) == (CHOOSE k \in 1..10 : Digits[k] = c) - 1

PyInt(k) == [t |-> "int", v |-> k]

PyFloat(neg, f) == [t |-> "float", neg |-> (neg /\ f.M # <<>>), M |-> f.M, E |-> f.E]

\* the double a Python float holds
PyFloatValue(v) == [M |-> v.M, E |-> v.E]

\* 10. ** y for a y that is not an integer: an irrational number, kept symbolic
PyPower(a0, a1) == [t |-> "float", mant |-> a0, exp10 |-> a1]

\* str.split('d'): the pieces between the separators
str_split(s) ==
    LET ends == {i \in 1..Len(s) : s[i] = "d"} \cup {Len(s) + 1}
        nth(k) == CHOOSE e \in ends : Cardinality({j \in ends : j < e}) = k - 1
    IN  [k \in 1..Cardinality(ends) |->
            SubSeq(s, IF k = 1 THEN 1 ELSE nth(k - 1) + 1, nth(k) - 1)]

\* float(t) for a token over digits, '.', '-' and letters that are not part
\* of any float literal: an optional sign, digits with at most one point, at
\* least one digit; anything else is a ValueError
float_body(t) == IF t # <<>> /\ t[1] = "-" THEN Tail(t) ELSE t

float_ok(t) ==
    LET b == float_body(t)
    IN  /\ \A i \in 1..Len(b) : IsDigit(b[i]) \/ b[i] = "."
        /\ Cardinality({i \in 1..Len(b) : b[i] = "."}) <= 1
        /\ \E i \in 1..Len(b) : IsDigit(b[i])

\* the natural a sequence of digits denotes, four digits to a limb
DecNat(ds) ==
    LET d(pos) == IF pos <= Len(ds) THEN DigitVal(ds[Len(ds) - pos + 1]) ELSE 0
    IN  NTrim[[i \in 1..((Len(ds) + 3) \div 4) |->
                  d(4 * i - 3) + 10 * d(4 * i - 2) + 100 * d(4 * i - 1)
                      + 1000 * d(4 * i)]]

float_frac(b) ==
    IF \E i \in 1..Len(b) : b[i] = "."
    THEN Len(b) - (CHOOSE i \in 1..Len(b) : b[i] = ".")
    ELSE 0

float(t) == Calc(<<"float", t>>)

Calc_float(t) ==
    LET b == float_body(t)
        ds == SelectSeq(b, IsDigit)
    IN  PyFloat(t[1] = "-", FRound[DecNat(ds), NPow10[float_frac(b)]])

\* the value of an integer-valued double, as an Int
FToInt(x) ==
    LET n == IF x.E >= 0 THEN FNum[x] ELSE NDivMod[x.M, NPow2[-x.E]].quot
    IN  NLimb(n, 1) + Base * NLimb(n, 2)

\* str2val(str), lines 1224-1230
str2val(str) == Calc(<<"str2val", str>>)

Calc_str2val(str) ==
    LET toks == str_split(str)
    IN  IF \E i \in 1..Len(toks) : ~float_ok(toks[i])
        THEN Return(PyInt(0))
        ELSE IF Len(toks) < 2 THEN Raise("IndexError")
        ELSE LET a0 == float(toks[1])
                 a1 == float(toks[2])
                 k == IF a1.neg THEN -FToInt(PyFloatValue(a1)) ELSE FToInt(PyFloatValue(a1))
             IN  IF FIsInteger[PyFloatValue(a1)]
                 THEN Return(PyFloat(a0.neg, FMul[PyFloatValue(a0), FPow10[k]]))
                 ELSE Return(PyPower(a0, a1))

\* the decimal digits of a natural n > 0
NDigits(n) ==
    LET all == [j \in 1..(4 * Len(n)) |->
                   (n[Len(n) - ((j - 1) \div 4)] \div 10^(3 - ((j - 1) % 4))) % 10]
        first == CHOOSE j \in 1..Len(all) :
                     all[j] # 0 /\ \A k \in 1..(j - 1) : all[k] = 0
    IN  [j \in 1..(Len(all) - first + 1) |-> Digits[all[j + first - 1] + 1]]

\* "{:.0f}".format(x) for an integer-valued double x >= 0
format_f0(x) ==
    LET n == IF x.E >= 0 THEN FNum[x] ELSE NDivMod[x.M, NPow2[-x.E]].quot
    IN  IF n = <<>> THEN <<"0">> ELSE NDigits(n)

\* "{:.0f}".format(d) for the float d = np.floor(...), an integer
format_int(d) ==
    IF d = 0 THEN <<"0">>
    ELSE IF d < 0 THEN <<"-">> \o NDigits(NFromInt[-d])
    ELSE NDigits(NFromInt[d])

\* "{0}".format(u) for a double 0 < u < 10 that is not an integer: the
\* shortest decimal that float() reads back as u, at most 17 digits
MaxReprDigits == 17

ReprK(u, n) == NRoundDiv[NMul[FNum[u], NPow10[n - 1]], FDen[u]]

ReprReadsBack(u, n) == FRound[ReprK(u, n), NPow10[n - 1]] = u

ReprLen(u) ==
    LET ok == {n \in 1..MaxReprDigits : ReprReadsBack(u, n)}
    IN  CHOOSE n \in ok : \A k \in ok : n <= k

ZeroPad(ds, n) ==
    [i \in 1..Max(n, Len(ds)) |->
        IF i <= n - Len(ds) THEN "0" ELSE ds[i - Max(0, n - Len(ds))]]

repr(u) ==
    LET n == ReprLen(u)
        ds == ZeroPad(NDigits(ReprK(u, n)), n)
    IN  <<ds[1], ".">> \o SubSeq(ds, 2, n)

\* d = np.floor(np.log10(val)), line 1249
val2str_d_next(val) == FFloorLog10[val] + 1

val2str_d(val) == FFloorLog10[val]

\* u = val/np.power(10., d), line 1250
val2str_u(val, d) == FDiv[val, FPow10[d]]

\* val2str(val) for a double val > 0, lines 1249-1255
val2str(val) == Calc(<<"val2str", val>>)

Calc_val2str(val) ==
    LET d == val2str_d(val)
        u == val2str_u(val, d)
    IN  IF FIsInteger[u]
        THEN Return(format_f0(u) \o <<"d">> \o format_int(d))
        ELSE Return(repr(u) \o <<"d">> \o format_int(d))

\* the double that the literal m * 10^e denotes
ArgVal(a) == Calc(<<"ArgVal", a>>)

Calc_ArgVal(a) ==
    IF a.e >= 0 THEN FRound[NMul[NFromInt[a.m], NPow10[a.e]], <<1>>]
    ELSE FRound[NFromInt[a.m], NPow10[-a.e]]

\* x and y are the same double or neighbouring doubles
FWithinUlp(x, y) == Calc(<<"FWithinUlp", x, y>>)

Calc_FWithinUlp(x, y) ==
    \/ x.E = y.E /\ (x.M = y.M \/ NAdd[x.M, <<1>>] = y.M \/ NAdd[y.M, <<1>>] = x.M)
    \/ x.E = y.E + 1 /\ x.M = P52 /\ NAdd[y.M, <<1>>] = P53
    \/ y.E = x.E + 1 /\ y.M = P52 /\ NAdd[x.M, <<1>>] = P53

\* floor(log10(m * 10^e)), exactly
DecLog10Floor(a) == Calc(<<"DecLog10Floor", a>>)

Calc_DecLog10Floor(a) ==
    IF a.e >= 0 THEN Log10Floor[NMul[NFromInt[a.m], NPow10[a.e]], <<1>>]
    ELSE Log10Floor[NFromInt[a.m], NPow10[-a.e]]

(***************************************************************************)
(* crrls.py: the collisional broadening of Salgado et al.                  *)
(*                                                                         *)
(* The coefficient tables hold doubles and the interpolation rounds, so    *)
(* the coefficients are signed doubles: PyFloat records, every operation   *)
(* rounding its exact result to the nearest double.                        *)
(***************************************************************************)
PyFloats == [t : {"float"}, neg : BOOLEAN, M : Nats, E : Int]

\* the double nearest to p/q, q > 0
PyRound[p \in Ints, q \in Nats] == PyFloat(p.neg, FRound[p.mag, q])

\* the exact value of a double is PyNum/PyDen
PyNum[x \in PyFloats] == ZMk[x.neg, FNum[PyFloatValue(x)]]

PyDen[x \in PyFloats] == FDen[PyFloatValue(x)]

\* float(k) for an int k
PyOfInt[k \in Int] == PyRound[ZInt[k], <<1>>]

PyNeg[x \in PyFloats] == PyFloat(~x.neg, PyFloatValue(x))

PyAdd[x \in PyFloats, y \in PyFloats] == Calc(<<"PyAdd", x, y>>)

Calc_PyAdd(x, y) ==
    PyRound[ZAdd[ZMul[PyNum[x], ZNat[PyDen[y]]], ZMul[PyNum[y], ZNat[PyDen[x]]]],
            NMul[PyDen[x], PyDen[y]]]

PySub[x \in PyFloats, y \in PyFloats] == PyAdd[x, PyNeg[y]]

PyMul[x \in PyFloats, y \in PyFloats] ==
    PyFloat(x.neg # y.neg, FMul[PyFloatValue(x), PyFloatValue(y)])

PyDiv[x \in PyFloats, y \in PyFloats] ==
    PyFloat(x.neg # y.neg, FDiv[PyFloatValue(x), PyFloatValue(y)])

\* utils.best_match_indx(value, array): the index, from 0, of the entry of
\* array closest to value (the first of them when several are as close)
best_match_indx(value, array) ==
    LET dist(i) == IF array[i] >= value THEN array[i] - value ELSE value - array[i]
    IN  (CHOOSE i \in 1..Len(array) :
            \A j \in 1..Len(array) :
                dist(i) < dist(j) \/ (dist(i) = dist(j) /\ i <= j)) - 1

\* the tables of pressure_broad_coefs, lines 961-1038: te in K, a and gammac
\* in units of 1e-7 (-109740980 is the literal -10.974098)
pbc_te ==
    <<10, 20, 30, 40, 50, 60, 70, 80, 90, 100,
      200, 300, 400, 500, 600, 700, 800, 900, 1000,
      2000, 3000, 4000, 5000, 6000, 7000, 8000, 9000, 10000,
      20000, 30000>>

pbc_a ==
    <<-109740980, -106696950, -104945410, -103702710, -102731720,
      -101913740, -101243090, -100640370, -100101530, -99613006,
      -96200366, -94001678, -92336349, -90848840, -89690170,
      -88686695, -87802238, -87012421, -86299908, -82718376,
      -80093937, -78344941, -77083367, -76126791, -75375720,
      -74770500, -74272885, -73857095, -71811733, -71132522>>

pbc_gammac ==
    <<54821631, 54354009, 54071360, 53861013, 53689105,
      53535398, 53409679, 53290318, 53180304, 53077770,
      52283700, 51700702, 51224893, 50770049, 50408369,
      50086342, 49796105, 49532071, 49290080, 48063682,
      47057576, 46356118, 45831746, 45421547, 45090104,
      44815675, 44584053, 44385507, 43290786, 42814240>>

\* the double that a literal of k * 1e-7 denotes
pbc_double[k \in Int] == PyRound[ZInt[k], NPow10[7]]

(***************************************************************************)
(* interpolate.interp1d(x, y, kind='linear', bounds_error=True)(x_new).    *)
(* The bounds check is interp1d's own.  The line is evaluated by scipy's   *)
(* own code in the older releases and by np.interp in the newer ones;      *)
(* interp says which: "scipy" takes the interval that ends at the first    *)
(* x[i] >= x_new, "numpy" the one that starts at the last x[i] <= x_new    *)
(* and returns y[i] itself at x[i].                                        *)
(***************************************************************************)
interp1d_below(x, x_new) == x_new < x[1]

interp1d_above_extrapolates(x, x_new) == FALSE

interp1d_above(x, x_new) == x_new > x[Len(x)]

interp1d_lo(x, x_new, interp) ==
    IF interp = "numpy"
    THEN Cardinality({j \in 1..Len(x) : x[j] <= x_new})
    ELSE Max(1, Min(Len(x) - 1, Cardinality({j \in 1..Len(x) : x[j] < x_new})))

\* slope*(x_new - x_hi) + y_lo
interp1d_line_from_hi(x, y, x_new, lo) ==
    LET y_lo == pbc_double[y[lo]]
        y_hi == pbc_double[y[lo + 1]]
        slope == PyDiv[PySub[y_hi, y_lo], PyOfInt[x[lo + 1] - x[lo]]]
    IN  PyAdd[PyMul[slope, PyOfInt[x_new - x[lo + 1]]], y_lo]

\* slope*(x_new - x_lo) + y_lo with slope = (y_hi - y_lo)/(x_hi - x_lo)
interp1d_line(x, y, x_new, lo) ==
    LET y_lo == pbc_double[y[lo]]
        y_hi == pbc_double[y[lo + 1]]
        slope == PyDiv[PySub[y_hi, y_lo], PyOfInt[x[lo + 1] - x[lo]]]
    IN  PyAdd[PyMul[slope, PyOfInt[x_new - x[lo]]], y_lo]

interp1d(x, y, x_new, interp) ==
    IF interp1d_below(x, x_new) \/ interp1d_above(x, x_new)
    THEN Raise("ValueError")
    ELSE LET lo == interp1d_lo(x, x_new, interp)
         IN  IF interp = "numpy" /\ (lo = Len(x) \/ x[lo] = x_new)
             THEN Return(pbc_double[y[lo]])
             ELSE Return(interp1d_line(x, y, x_new, lo))

\* pressure_broad_coefs(Te), lines 961-1044; te_indx is not used
pressure_broad_coefs(Te, interp) == Calc(<<"pressure_broad_coefs", Te, interp>>)

Calc_pressure_broad_coefs(Te, interp) ==
    LET te_indx == best_match_indx(Te, pbc_te)
        a_func == interp1d(pbc_te, pbc_a, Te, interp)
        g_func == interp1d(pbc_te, pbc_gammac, Te, interp)
    IN  IF a_func.kind = "raise" THEN a_func
        ELSE IF g_func.kind = "raise" THEN g_func
        ELSE Return(<<a_func.val, g_func.val>>)

\* pressure_broad_salgado(n, te, ne, dn), lines 950-951.  The powers are
\* irrational numbers: the width is kept as the expression over a and g.
pressure_broad_salgado(n, te, ne, dn, interp) ==
    Calc(<<"pressure_broad_salgado", n, te, ne, dn, interp>>)

Calc_pressure_broad_salgado(n, te, ne, dn, interp) ==
    LET coefs == pressure_broad_coefs(te, interp)
    IN  IF coefs.kind = "raise" THEN coefs
        ELSE Return([expr |-> "ne*10**a*(n**g + (n + dn)**g)/2/pi",
                     ne |-> ne, a |-> coefs.val[1], g |-> coefs.val[2],
                     n |-> n, dn |-> dn])

\* radiation_broad_salgado(n, w, tr), line 1063: arithmetic that cannot fail
radiation_broad_salgado(n, w, tr) ==
    [expr |-> "6.096e-17*w*tr*n**5.8", w |-> w, tr |-> tr, n |-> n]

\* lorentz_width(n, ne, Te, Tr, W, dn), lines 849-853
lorentz_width(n, ne, Te, Tr, W, dn, interp) ==
    Calc(<<"lorentz_width", n, ne, Te, Tr, W, dn, interp>>)

Calc_lorentz_width(n, ne, Te, Tr, W, dn, interp) ==
    LET dL_r == radiation_broad_salgado(n, W, Tr)
        dL_p == pressure_broad_salgado(n, Te, ne, dn, interp)
    IN  IF dL_p.kind = "raise" THEN dL_p
        ELSE Return([expr |-> "dL_r + dL_p", dL_r |-> dL_r, dL_p |-> dL_p.val])

\* the double nearest to the point at x_new of the straight line through
\* (x[k], y[k] * 1e-7) and (x[k + 1], y[k + 1] * 1e-7)
LinearBetween(x, y, k, x_new) == Calc(<<"LinearBetween", x, y, k, x_new>>)

Calc_LinearBetween(x, y, k, x_new) ==
    PyRound[ZAdd[ZMul[ZInt[y[k]], ZInt[x[k + 1] - x_new]],
                 ZMul[ZInt[y[k + 1]], ZInt[x_new - x[k]]]],
            NMul[NPow10[7], NFromInt[x[k + 1] - x[k]]]]

\* the double of the literal -m * 1e-7 or m * 1e-7
Literal7(m) ==
    IF m < 0 THEN PyFloat(TRUE, ArgVal([m |-> -m, e |-> -7]))
    ELSE PyFloat(FALSE, ArgVal([m |-> m, e |-> -7]))

\* x and y are the same double or neighbouring doubles of the same sign
PyWithinUlp(x, y) ==
    x.neg = y.neg /\ FWithinUlp(PyFloatValue(x), PyFloatValue(y))

(***************************************************************************)
(* rrlmod.py: the model grids.                                             *)
(*                                                                         *)
(* A file name is a sequence of pieces: a key (te, ne) is spelled          *)
(* character by character, as str2val reads it, and the fixed text between  *)
(* the keys is one piece.  In the names of the model the pieces line up,   *)
(* so matching piece by piece is matching character by character.          *)
(* The directory is given by its listing, in the order the file system     *)
(* yields the entries; glob.glob keeps that order.                         *)
(***************************************************************************)
LOCALDIR == <<"LOCALDIR">>

GridTail == <<"_vriens_delta_500_vrinc_nmax_9900", "_dat">>

BetaTail == GridTail \o <<"bn_beta">>

RECURSIVE GlobMatch(_, _)
\* fnmatch of a path against a pattern; * matches any run of characters
\* other than the separator
GlobMatch(pat, name) ==
    IF pat = <<>> THEN name = <<>>
    ELSE IF pat[1] = "*"
    THEN \/ GlobMatch(Tail(pat), name)
         \/ name # <<>> /\ name[1] # "/" /\ GlobMatch(pat, Tail(name))
    ELSE name # <<>> /\ pat[1] = name[1] /\ GlobMatch(Tail(pat), Tail(name))

\* glob.glob(pattern)
glob(pattern, listing) == SelectSeq(listing, LAMBDA f : GlobMatch(pattern, f))

\* the number of rows of a grid file
GridRows == 5

\* np.loadtxt(path): the rows of the file, one for each n from 1
np_loadtxt(path) == [i \in 1..GridRows |-> [n |-> i, file |-> path]]

\* bn[:,0]
column0(bn) == [i \in 1..Len(bn) |-> bn[i].n]

\* s[lo:hi] for lo >= 0 and hi >= 0
PySlice(s, lo, hi) == SubSeq(s, lo + 1, Min(hi, Len(s)))

\* what a call leaves: its result and the files it has read
Outcome(r, files) == [ret |-> r, reads |-> files]

\* frec_calc.set_dn(line): the Greek-letter suffix of the line gives dn
Greek == <<"alpha", "beta", "gamma", "delta", "epsilon", "zeta", "eta", "theta">>

set_dn(line) == CHOOSE k \in 1..Len(Greek) : Greek[k] = line[Len(line)]

\* the float that the literal m * 10^e denotes, kept as the literal
PyLiteral(m, e) == [t |-> "float", literal |-> [m |-> m, e |-> e]]

\* mdn(dn) with the values of dn = 1 and dn = 2 swapped
mdn_swapped(dn) ==
    IF dn = 1 THEN Return(PyLiteral(2633, -5))
    ELSE IF dn = 2 THEN Return(PyLiteral(1908, -4))
    ELSE IF dn = 3 THEN Return(PyLiteral(8106, -6))
    ELSE IF dn = 4 THEN Return(PyLiteral(3492, -6))
    ELSE IF dn = 5 THEN Return(PyLiteral(1812, -6))
    ELSE Raise("UnboundLocalError")

\* mdn(dn), lines 1155-1167: mdn_ is not bound when no test holds
mdn(dn) ==
    IF dn = 1 THEN Return(PyLiteral(1908, -4))
    ELSE IF dn = 2 THEN Return(PyLiteral(2633, -5))
    ELSE IF dn = 3 THEN Return(PyLiteral(8106, -6))
    ELSE IF dn = 4 THEN Return(PyLiteral(3492, -6))
    ELSE IF dn = 5 THEN Return(PyLiteral(1812, -6))
    ELSE Raise("UnboundLocalError")

\* load_bn: model_file, lines 576-583
load_bn_model_file(te, ne, tr, ncrit) ==
    IF tr = <<"-">> \/ tr = <<>>
    THEN <<"Carbon_opt_T_">> \o te \o <<"_ne_">> \o ne \o <<"_ncrit_">> \o ncrit
             \o GridTail
    ELSE <<"Carbon_opt_T_">> \o te \o <<"_ne_">> \o ne \o <<"_ncrit_">> \o ncrit
             \o <<"_">> \o tr \o GridTail

\* the rows of bn up to the best match of n_max, that row left out
bn_rows_before(bn, n_min, n_max) ==
    LET nimin == best_match_indx(n_min, column0(bn))
        nimax == best_match_indx(n_max, column0(bn))
    IN  PySlice(bn, nimin, nimax)

\* the rows of bn from the best match of n_min through the best match of
\* n_max, lines 589-591 and 628-630
bn_rows(bn, n_min, n_max) ==
    LET nimin == best_match_indx(n_min, column0(bn))
        nimax == best_match_indx(n_max, column0(bn))
    IN  PySlice(bn, nimin, nimax + 1)

\* load_bn(te, ne, tr, ncrit, n_min, n_max, verbose, location), lines 575-592
load_bn(te, ne, tr, ncrit, n_min, n_max, location, listing) ==
    Calc(<<"load_bn", te, ne, tr, ncrit, n_min, n_max, location, listing>>)

Calc_load_bn(te, ne, tr, ncrit, n_min, n_max, location, listing) ==
    LET model_file == load_bn_model_file(te, ne, tr, ncrit)
        found == glob(location \o <<"/">> \o model_file, listing)
    IN  IF found = <<>> THEN Outcome(Raise("IndexError"), <<>>)
        ELSE Outcome(Return(bn_rows(np_loadtxt(found[1]), n_min, n_max)), <<found[1]>>)

\* load_bn_h: the pattern handed to glob, lines 617 and 622
load_bn_h_pattern(te, ne, other) ==
    IF other = <<"-">> \/ other = <<>>
    THEN LOCALDIR \o <<"/", "H_bn2", "/", "Hydrogen_opt_T_">> \o te \o <<"_ne_">> \o ne
             \o <<"*", "_ncrit_8d2">> \o GridTail
    ELSE LOCALDIR \o <<"/", "H_bn2", "/", "Hydrogen_opt_T_">> \o te \o <<"_ne_">> \o ne
             \o <<"*", "_ncrit_8d2", "_">> \o other \o GridTail

\* load_bn_h(te, ne, other, n_min, n_max, verbose), lines 613-632
load_bn_h(te, ne, other, n_min, n_max, listing) ==
    LET found == glob(load_bn_h_pattern(te, ne, other), listing)
    IN  IF found = <<>> THEN Outcome(Raise("IndexError"), <<>>)
        ELSE Outcome(Return(bn_rows(np_loadtxt(found[1]), n_min, n_max)), <<found[1]>>)

\* load_betabn: model_file, lines 1003 and 1010; atom and ncrit are not
\* bound for a line that is neither RRL_C... nor RRL_H...
load_betabn_model_file(atom, ncrit, temp, dens, other) ==
    IF other = <<"-">> \/ other = <<>>
    THEN atom \o <<"_opt_T_">> \o temp \o <<"_ne_">> \o dens \o <<"_ncrit_">> \o ncrit
             \o BetaTail
    ELSE atom \o <<"_opt_T_">> \o temp \o <<"_ne_">> \o dens \o <<"_ncrit_">> \o ncrit
             \o <<"_">> \o other \o BetaTail

\* load_betabn(temp, dens, other, trans, verbose, location), lines 995-1019
load_betabn(temp, dens, other, trans, location, listing) ==
    IF trans[1] \notin {"RRL_C", "RRL_H"} THEN Outcome(Raise("UnboundLocalError"), <<>>)
    ELSE LET atom == IF trans[1] = "RRL_C" THEN <<"Carbon">> ELSE <<"Hydrogen">>
             ncrit == IF trans[1] = "RRL_C" THEN <<"1.5d3">> ELSE <<"8d2">>
             model_file == load_betabn_model_file(atom, ncrit, temp, dens, other)
             found == glob(location \o <<"/">> \o model_file, listing)
         IN  IF found = <<>> THEN Outcome(Raise("IndexError"), <<>>)
             ELSE Outcome(Return(np_loadtxt(found[1])), <<found[1]>>)

\* load_betabn_h: model_file, lines 1029 and 1036
load_betabn_h_model_file(temp, dens, other, trans) ==
    IF other = <<"-">> \/ other = <<>>
    THEN <<"bbn2_RRL_HI">> \o trans \o <<"/", "Hydrogen_opt_T_">> \o temp \o <<"_ne_">>
             \o dens \o <<"_ncrit_8d2">> \o BetaTail
    ELSE <<"bbn2_RRL_HI">> \o trans \o <<"/", "Hydrogen_opt_T_">> \o temp \o <<"_ne_">>
             \o dens \o <<"_ncrit_8d2", "_">> \o other \o BetaTail

\* load_betabn_h(temp, dens, other, trans, verbose), lines 1028-1044
load_betabn_h(temp, dens, other, trans, listing) ==
    LET found == glob(LOCALDIR \o <<"/">> \o load_betabn_h_model_file(temp, dens, other, trans),
                      listing)
    IN  IF found = <<>> THEN Outcome(Raise("IndexError"), <<>>)
        ELSE Outcome(Return(np_loadtxt(found[1])), <<found[1]>>)

\* the leading constant of itau_norad and itau_lte, 1.069e7, with its sign
itau_constant(neg) == [neg |-> neg, literal |-> [m |-> 1069, e |-> 4]]

\* itau_norad(n, Te, b, dn, mdn_), line 371, for each row: exp and the power
\* 5/2 are irrational, the value is kept as the expression
itau_norad(n, Te, b, dn, mdn_) ==
    [expr |-> "c*dn*mdn_*b*exp(1.58e5/(n**2*Te))/Te**(5/2)",
     c |-> itau_constant(TRUE), n |-> n, Te |-> Te, b |-> b, dn |-> dn, mdn_ |-> mdn_]

\* the value that itau and itau_h put out for the rows bbn, lines 325-330
\* and 354-360
itau_value(value, bbn, t, dn, mdn_) ==
    [i \in 1..Len(bbn) |->
        IF value = "itau" THEN itau_norad(bbn[i].n, t, bbn[i], dn, mdn_)
        ELSE IF value = "bbnMdn"
        THEN [expr |-> "b*dn*mdn_", b |-> bbn[i], dn |-> dn, mdn_ |-> mdn_]
        ELSE bbn[i]]

\* bbn[nimin:nimax], lines 322-323
itau_rows(bbn, nimin, nimax) == PySlice(bbn, nimin, nimax)

\* itau(temp, dens, line, n_min, n_max, other, verbose, value, location),
\* lines 313-332
itau(temp, dens, line, n_min, n_max, other, value, location, listing) ==
    Calc(<<"itau", temp, dens, line, n_min, n_max, other, value, location, listing>>)

Calc_itau(temp, dens, line, n_min, n_max, other, value, location, listing) ==
    LET t == str2val(temp)
        dn == set_dn(line)
        mdn_ == mdn(dn)
        loaded == load_betabn(temp, dens, other, line, location, listing)
        bbn == loaded.ret.val
        rows == itau_rows(bbn, best_match_indx(n_min, column0(bbn)),
                          best_match_indx(n_max, column0(bbn)))
    IN  IF t.kind = "raise" THEN Outcome(t, <<>>)
        ELSE IF ~float_ok(dens) THEN Outcome(Raise("ValueError"), <<>>)
        ELSE IF mdn_.kind = "raise" THEN Outcome(mdn_, <<>>)
        ELSE IF loaded.ret.kind = "raise" THEN loaded
        ELSE Outcome(Return(<<column0(rows),
                              itau_value(value, rows, t.val, dn, mdn_.val)>>),
                     loaded.reads)

\* itau_h(temp, dens, trans, n_max, other, verbose, value), lines 341-362
itau_h(temp, dens, trans, n_max, other, value, listing) ==
    Calc(<<"itau_h", temp, dens, trans, n_max, other, value, listing>>)

Calc_itau_h(temp, dens, trans, n_max, other, value, listing) ==
    LET t == str2val(temp)
        dn == set_dn(trans)
        mdn_ == mdn(dn)
        loaded == load_betabn_h(temp, dens, other, trans, listing)
        rows == PySlice(loaded.ret.val, 0, n_max)
    IN  IF t.kind = "raise" THEN Outcome(t, <<>>)
        ELSE IF mdn_.kind = "raise" THEN Outcome(mdn_, <<>>)
        ELSE IF loaded.ret.kind = "raise" THEN loaded
        ELSE Outcome(Return(<<column0(rows),
                              itau_value(value, rows, t.val, dn, mdn_.val)>>),
                     loaded.reads)

(***************************************************************************)
(* rrlmod.py: the batch loaders.  dict holds three lists of the same       *)
(* length, dict.Te[i], dict.ne[i] and dict.Tr[i] being one model.          *)
(***************************************************************************)
\* data[i, c] = column: numpy stores a column of the width of data, and
\* repeats a column of one value
numpy_fits(len, width) == len = width \/ len = 1

numpy_store(column, width) ==
    IF Len(column) = width THEN column ELSE [j \in 1..width |-> column[1]]

\* data[i] = rows, stored at the mirrored index
data_store_mirrored(data, i, rows) == [data EXCEPT ![Len(data) - i + 1] = rows]

\* data[i] = rows
data_store(data, i, rows) == [data EXCEPT ![i] = rows]

\* np.zeros((len(dict['Te']), ..., width))
np_zeros(len, width) == [i \in 1..len |-> [j \in 1..width |-> [n |-> 0, file |-> <<>>]]]

\* a failed load is skipped and the loop goes on with the next model
batch_skips_failure(failed) == FALSE

\* a failed load ends the loop and the call: there is no try around it
batch_aborts(failed) == TRUE

RECURSIVE load_bn_dict_loop(_, _, _, _, _, _, _, _, _)
\* the loop of load_bn_dict from model i on, lines 717-730
load_bn_dict_loop(dict, n_min, n_max, location, ncrit, listing, i, data, files) ==
    IF i > Len(dict.Te) THEN Outcome(Return(data), files)
    ELSE LET bn == load_bn(dict.Te[i], dict.ne[i], dict.Tr[i], ncrit, n_min, n_max,
                           location, listing)
         IN  IF bn.ret.kind = "raise"
             THEN IF batch_aborts(bn.ret) THEN Outcome(bn.ret, files)
                  ELSE load_bn_dict_loop(dict, n_min, n_max, location, ncrit, listing,
                                         i + 1, data, files)
             ELSE IF ~numpy_fits(Len(bn.ret.val), n_max - n_min + 1)
             THEN Outcome(Raise("ValueError"), files \o bn.reads)
             ELSE load_bn_dict_loop(dict, n_min, n_max, location, ncrit, listing, i + 1,
                                    data_store(data, i,
                                               numpy_store(bn.ret.val, n_max - n_min + 1)),
                                    files \o bn.reads)

\* load_bn_dict(dict, n_min, n_max, verbose, location, ncrit), lines 715-732
load_bn_dict(dict, n_min, n_max, location, ncrit, listing) ==
    Calc(<<"load_bn_dict", dict, n_min, n_max, location, ncrit, listing>>)

Calc_load_bn_dict(dict, n_min, n_max, location, ncrit, listing) ==
    IF n_max - n_min + 1 < 0 THEN Outcome(Raise("ValueError"), <<>>)
    ELSE load_bn_dict_loop(dict, n_min, n_max, location, ncrit, listing, 1,
                           np_zeros(Len(dict.Te), n_max - n_min + 1), <<>>)

RECURSIVE load_itau_dict_loop(_, _, _, _, _, _, _, _, _, _)
\* the loop of load_itau_dict from model i on, lines 922-932
load_itau_dict_loop(dict, line, n_min, n_max, value, location, listing, i, data, files) ==
    IF i > Len(dict.Te) THEN Outcome(Return(data), files)
    ELSE LET one == itau(dict.Te[i], dict.ne[i], line, n_min, n_max, dict.Tr[i], value,
                         location, listing)
         IN  IF one.ret.kind = "raise"
             THEN IF batch_aborts(one.ret) THEN Outcome(one.ret, files)
                  ELSE load_itau_dict_loop(dict, line, n_min, n_max, value, location,
                                           listing, i + 1, data, files)
             ELSE IF ~numpy_fits(Len(one.ret.val[1]), n_max - n_min)
             THEN Outcome(Raise("ValueError"), files \o one.reads)
             ELSE load_itau_dict_loop(dict, line, n_min, n_max, value, location, listing,
                                      i + 1,
                                      data_store(data, i,
                                                 <<numpy_store(one.ret.val[1], n_max - n_min),
                                                   numpy_store(one.ret.val[2], n_max - n_min)>>),
                                      files \o one.reads)

\* load_itau_dict(dict, line, n_min, n_max, verbose, value, location),
\* lines 920-934
load_itau_dict(dict, line, n_min, n_max, value, location, listing) ==
    Calc(<<"load_itau_dict", dict, line, n_min, n_max, value, location, listing>>)

Calc_load_itau_dict(dict, line, n_min, n_max, value, location, listing) ==
    IF n_max - n_min < 0 THEN Outcome(Raise("ValueError"), <<>>)
    ELSE load_itau_dict_loop(dict, line, n_min, n_max, value, location, listing, 1,
                             [i \in 1..Len(dict.Te) |->
                                 <<[j \in 1..(n_max - n_min) |-> 0],
                                   [j \in 1..(n_max - n_min) |-> [expr |-> "0"]]>>],
                             <<>>)

(***************************************************************************)
(* rrlmod.py: the LTE optical depth, the free-free opacity and the         *)
(* correction factor of the Planck function.  Frequencies are 10^(3a) GHz  *)
(* and temperatures 10^b K, given by a and b, so that both logarithms are  *)
(* integers.                                                               *)
(***************************************************************************)
\* itau_lte(n, Te, dn, mdn_, em), line 379
itau_lte(n, Te, dn, mdn_, em) ==
    [expr |-> "c*dn*mdn_*exp(1.58e5/(n**2*Te))/Te**(5/2)*em",
     c |-> itau_constant(FALSE), n |-> n, Te |-> Te, dn |-> dn, mdn_ |-> mdn_, em |-> em]

\* the factor of exp(1.58e5/(n**2*Te))/Te**(5/2) in the value v of itau_norad
\* or itau_lte: the integer z times 10^e
ItauCoef(v) == Calc(<<"ItauCoef", v>>)

Calc_ItauCoef(v) ==
    LET b == IF "b" \in DOMAIN v THEN v.b ELSE 1
        em == IF "em" \in DOMAIN v THEN v.em ELSE 1
    IN  [z |-> ZMul[ZMk[v.c.neg, NFromInt[v.c.literal.m]],
                    ZMul[ZMul[ZInt[v.dn], ZInt[v.mdn_.literal.m]],
                         ZMul[ZInt[b], ZInt[em]]]],
         e |-> v.c.literal.e + v.mdn_.literal.e]

\* k times the factor c
ItauTimes(k, c) == Calc(<<"ItauTimes", k, c>>)

Calc_ItauTimes(k, c) == [z |-> ZMul[ZInt[k], c.z], e |-> c.e]

\* v = 0.65290 + 2./3.*log10(nu) - log10(Te) in units of 1e-5, line 402
kappa_cont_v(nu, Te) == 65290 + 200000 * nu - 100000 * Te

\* mask_2 = (v > -5) & (v <= -0.25), line 405
kappa_cont_mask_2(v) == v > -500000 /\ v <= -25000

\* mask_3 = v > -0.25, line 406
kappa_cont_mask_3(v) == v > -25000

\* kappa_cont_base(nu, Te, ne, nion, Z)*10**(slope*v + icpt), lines 411-417:
\* slope and icpt in units of 1e-6
kappa_cont_regime(slope, icpt, nu, Te, v) ==
    [expr |-> "kappa_cont_base(nu, Te, ne, nion, Z)*10**(slope*v + icpt)",
     slope |-> slope, icpt |-> icpt, nu |-> nu, Te |-> Te, v |-> v]

\* kappa_cont(freq, Te, ne, nion, Z), lines 396-437: kc starts as zeros, then
\* the elements of mask_2 are written, then those of mask_3
kappa_cont(freq, Te) ==
    LET v == [i \in 1..Len(freq) |-> kappa_cont_v(freq[i], Te)]
        kc == [i \in 1..Len(freq) |-> [expr |-> "0"]]
        kc_2 == [i \in 1..Len(freq) |->
                    IF kappa_cont_mask_2(v[i])
                    THEN kappa_cont_regime(-1232644, 98747, freq[i], Te, v[i])
                    ELSE kc[i]]
        kc_3 == [i \in 1..Len(freq) |->
                    IF kappa_cont_mask_3(v[i])
                    THEN kappa_cont_regime(-1084191, 135860, freq[i], Te, v[i])
                    ELSE kc_2[i]]
    IN  Return([expr |-> "kc/pc*exp(-h*nu/k_B/Te)", kc |-> kc_3])

\* def kappa_line_lte(nu, Te, ne, nion, Z, Tr, line, n_min=1, n_max=1500)
kappa_line_lte_params == <<"nu", "Te", "ne", "nion", "Z", "Tr", "line", "n_min", "n_max">>

\* the parameters of kappa_line_lte that have a default value
kappa_line_lte_defaults == {"n_min", "n_max"}

\* Python binds the call f(a_1, ..., a_k, **keywords) to the parameters
\* params: no more positional arguments than parameters, every keyword a
\* parameter not bound by position, every parameter without a default bound
PyCallBinds(params, defaults, k, keywords) ==
    /\ k <= Len(params)
    /\ \A w \in keywords : \E i \in (k + 1)..Len(params) : params[i] = w
    /\ \A i \in 1..Len(params) :
           params[i] \in defaults \/ i <= k \/ params[i] \in keywords

\* the names that the body of eta can read: its parameters, its locals and
\* the names that rrlmod.py binds at module level (lines 14-35 and each def)
eta_names ==
    {"freq", "Te", "ne", "nion", "Z", "Tr", "trans", "n_max", "kl", "kc"}
        \cup {"os", "glob", "re", "pickle", "np", "pc", "u", "ac", "h", "k_B", "c", "m_e",
              "Ryd", "e", "blackbody_nu", "fc", "natural_sort", "f2n", "n2f", "load_ref",
              "best_match_indx", "LOCALDIR", "kappa_cont", "kappa_line_lte", "eta"}

\* eta(freq, Te, ne, nion, Z, Tr, trans, n_max=1500), lines 129-137: the call
\* of kappa_line_lte hands over six positional arguments and n_max
eta(freq, Te, trans) ==
    LET kc == kappa_cont(freq, Te)
    IN  IF ~PyCallBinds(kappa_line_lte_params, kappa_line_lte_defaults, 6, {"n_max"})
        THEN Raise("TypeError")
        ELSE IF kc.kind = "raise" THEN kc
        ELSE IF ~({"bni", "bnf", "bnfni"} \subseteq eta_names) THEN Raise("NameError")
        ELSE Return([expr |-> "(kc + kl*bni)/(kc + kl*bnf*bnfni)", kc |-> kc.val,
                     kl |-> [expr |-> "kappa_line_lte", nu |-> freq, Te |-> Te,
                             line |-> trans]])

(***************************************************************************)
(* crrls.py: the line profiles and the Doppler width.  np.sqrt rounds the  *)
(* exact root to the nearest double; np.power(x, 2.) is the rounded        *)
(* product x*x.                                                            *)
(***************************************************************************)
\* the integer square root of N by Newton's iteration from x >= sqrt(N)
NSqrtLoop[N \in Nats, x \in Nats] ==
    LET y == NDivMod[NAdd[x, NDivMod[N, x].quot], <<2>>].quot
    IN  IF NCmp[y, x] >= 0 THEN x ELSE NSqrtLoop[N, y]

\* the double nearest to the square root of x: the root q of x.M * 2^s has
\* 55 bits, and a root that is not an integer lies strictly between q and
\* q + 1, which holds no double and no midpoint of two doubles
FSqrt[x \in Floats] == Calc(<<"FSqrt", x>>)

Calc_FSqrt(x) ==
    IF x.M = <<>> THEN FZero
    ELSE LET s == IF x.E % 2 = 0 THEN 56 ELSE 57
             N == NMul[x.M, NPow2[s]]
             q == NSqrtLoop[N, NPow2[55]]
             half == IF NMul[q, q] = N THEN <<>> ELSE <<1>>
         IN  FShift[FRound[NAdd[NMulLimb[q, 2], half], <<2>>], (x.E - s) \div 2]

\* np.sqrt(x), x >= 0
PySqrt[x \in PyFloats] == PyFloat(FALSE, FSqrt[PyFloatValue(x)])

\* np.power(x, 2.)
np_square(x) == PyMul[x, x]

\* np.log(2.): the double 0x1.62e42fefa39efp-1
np_log_2 == PyFloat(FALSE, [M |-> <<5359, 6816, 3147, 6243>>, E |-> -53])

\* np.pi: the double 0x1.921fb54442d18p+1
np_pi == PyFloat(FALSE, [M |-> <<8440, 5202, 2377, 7074>>, E |-> -51])

\* np.exp(z): 1 for z = 0, irrational otherwise
np_exp(z) == IF z.M = <<>> THEN PyOfInt[1] ELSE [expr |-> "exp(z)", z |-> z]

\* gaussian(x, sigma, center, amplitude), line 501
gaussian(x, sigma, center, amplitude) ==
    Calc(<<"gaussian", x, sigma, center, amplitude>>)

Calc_gaussian(x, sigma, center, amplitude) ==
    LET z == PyDiv[PyNeg[np_square(PySub[x, center])],
                   PyMul[PyOfInt[2], np_square(sigma)]]
        e == np_exp(z)
    IN  IF "expr" \notin DOMAIN e THEN PyMul[amplitude, e]
        ELSE [expr |-> "amplitude*e", amplitude |-> amplitude, e |-> e]

\* voigt_(x, y) = wofz(x + 1j*y).real, line 1207.  On the imaginary axis
\* w(iy) = exp(y^2)*erfc(y), which lies between 1 - 2y and 1 for y >= 0; the
\* bounds leave 2^-40 for the error of the library and of the product that
\* follows.  Elsewhere the value is kept as the expression.
voigt_(x, y) ==
    IF x.M = <<>> /\ ~y.neg
    THEN LET one == NMul[PyDen[y], NPow2[40]]
         IN  [lo |-> [num |-> ZSub[ZSub[ZNat[one],
                                        ZNat[NMul[NMulLimb[PyNum[y].mag, 2], NPow2[40]]]],
                                   ZNat[PyDen[y]]],
                      den |-> one],
              hi |-> [num |-> ZNat[NAdd[NPow2[40], <<1>>]], den |-> NPow2[40]]]
    ELSE [expr |-> "wofz(x + 1j*y).real", x |-> x, y |-> y]

\* amplitude*f/sigma, without the square root of pi
voigt_norm_no_pi(amplitude, f, sigma) == PyDiv[PyMul[amplitude, f], sigma]

\* amplitude*f/(sigma*np.sqrt(np.pi)), line 1226
voigt_norm(amplitude, f, sigma) ==
    PyDiv[PyMul[amplitude, f], PyMul[sigma, PySqrt[np_pi]]]

\* voigt(x, sigma, gamma, center, amplitude), lines 1210-1228: the value is
\* the product k*w
voigt(x, sigma, gamma, center, amplitude) ==
    Calc(<<"voigt", x, sigma, gamma, center, amplitude>>)

Calc_voigt(x, sigma, gamma, center, amplitude) ==
    LET ln2 == np_log_2
        f == PySqrt[ln2]
        rx == PyMul[PyDiv[PySub[x, center], sigma], f]
        ry == PyMul[PyDiv[gamma, sigma], f]
    IN  [expr |-> "k*w", k |-> voigt_norm(amplitude, f, sigma), w |-> voigt_(rx, ry)]

\* the literal 8314.46262103 of doppler_broad and doppler_temp
doppler_R == PyRound[ZNat[<<2103, 4626, 8314>>], NPow10[8]]

\* sigma2fwhm(sigma), line 1110
sigma2fwhm(sigma) ==
    PyMul[PyMul[sigma, PyOfInt[2]], PySqrt[PyMul[PyOfInt[2], np_log_2]]]

\* fwhm2sigma(fwhm) without the factor 2 of the divisor
fwhm2sigma_half(fwhm) == PyDiv[fwhm, PySqrt[PyMul[PyOfInt[2], np_log_2]]]

\* fwhm2sigma(fwhm), line 417
fwhm2sigma(fwhm) ==
    PyDiv[fwhm, PyMul[PyOfInt[2], PySqrt[PyMul[PyOfInt[2], np_log_2]]]]

\* doppler_broad(t, m, vrms, fwhm), lines 142-163
doppler_broad(t, m, vrms, fwhm) == Calc(<<"doppler_broad", t, m, vrms, fwhm>>)

Calc_doppler_broad(t, m, vrms, fwhm) ==
    LET dv == PySqrt[PyAdd[PyDiv[PyMul[doppler_R, t], m], np_square(vrms)]]
    IN  IF fwhm THEN sigma2fwhm(dv) ELSE dv

\* doppler_temp(sigma, m, vrms, fwhm), lines 166-184
doppler_temp(sigma, m, vrms, fwhm) == Calc(<<"doppler_temp", sigma, m, vrms, fwhm>>)

Calc_doppler_temp(sigma, m, vrms, fwhm) ==
    LET dv == IF fwhm THEN fwhm2sigma(sigma) ELSE sigma
    IN  PyDiv[PyMul[PySub[np_square(dv), np_square(vrms)], m], doppler_R]

\* the fractions a and b agree within 1e-4 of b: 10^4 * |a - b| <= |b|
RatWithin(a, b) == Calc(<<"RatWithin", a, b>>)

Calc_RatWithin(a, b) ==
    LET d == ZSub[ZMul[a.num, ZNat[b.den]], ZMul[b.num, ZNat[a.den]]]
    IN  NCmp[NMulLimb[d.mag, 10000], NMul[b.num.mag, a.den]] <= 0

\* the product of the double k and the fraction w
RatTimes(k, w) == Calc(<<"RatTimes", k, w>>)

Calc_RatTimes(k, w) == [num |-> ZMul[PyNum[k], w.num], den |-> NMul[PyDen[k], w.den]]

\* the fraction a, less the fraction b, has the sign of this integer
RatCmp(a, b) == Calc(<<"RatCmp", a, b>>)

Calc_RatCmp(a, b) == ZSgn[ZSub[ZMul[a.num, ZNat[b.den]], ZMul[b.num, ZNat[a.den]]]]

\* the double x as a fraction
RatOf(x) == Calc(<<"RatOf", x>>)

Calc_RatOf(x) == [num |-> PyNum[x], den |-> PyDen[x]]

\* amplitude * c / sigma for the fraction c
PeakOf(amplitude, c, sigma) == Calc(<<"PeakOf", amplitude, c, sigma>>)

Calc_PeakOf(amplitude, c, sigma) ==
    [num |-> ZMul[ZMul[PyNum[amplitude], c.num], ZNat[PyDen[sigma]]],
     den |-> NMul[NMul[PyDen[amplitude], c.den], PyNum[sigma].mag]]

\* |res - t| <= 2^-49 * (t + m*vrms^2/8314.46262103), t, m and vrms integers
DopplerWithin(res, t, m, vrms) == Calc(<<"DopplerWithin", res, t, m, vrms>>)

Calc_DopplerWithin(res, t, m, vrms) ==
    LET R == ZNat[<<2103, 4626, 8314>>]
        d == ZSub[PyNum[res], ZMul[ZInt[t], ZNat[PyDen[res]]]]
        lhs == NMul[NMul[d.mag, R.mag], NPow2[49]]
        rhs == ZMul[ZAdd[ZMul[R, ZInt[t]], ZMul[ZNat[NPow10[8]], ZInt[m * vrms * vrms]]],
                    ZNat[PyDen[res]]]
    IN  NCmp[lhs, rhs.mag] <= 0

(***************************************************************************)
(* The width and the area of a Voigt profile in the doubles of numpy       *)
(* (crrls.py).  np.power(x, 2) and x**2 are the rounded product x*x, x**3  *)
(* the rounded cube.  A quotient 0/0 is nan.                               *)
(***************************************************************************)
np_nan == [t |-> "nan"]

\* the literals 0.5346 and 0.2166
np_a == PyRound[ZInt[5346], NPow10[4]]

np_b == PyRound[ZInt[2166], NPow10[4]]

\* x < y for two doubles
PyLess(x, y) == RatCmp(RatOf(x), RatOf(y)) < 0

\* |x - y| <= 10^-k * |s| for three doubles
PyWithin(x, y, s, k) == Calc(<<"PyWithin", x, y, s, k>>)

Calc_PyWithin(x, y, s, k) ==
    LET d == ZSub[ZMul[PyNum[x], ZNat[PyDen[y]]], ZMul[PyNum[y], ZNat[PyDen[x]]]]
    IN  NCmp[NMul[NMul[d.mag, NPow10[k]], PyDen[s]],
             NMul[PyNum[s].mag, NMul[PyDen[x], PyDen[y]]]] <= 0

\* np.sqrt(b*np.power(dL, 2) + np.power(dD, 2))
voigt_fwhm_root(dD, dL) ==
    PySqrt[PyAdd[PyMul[np_b, np_square(dL)], np_square(dD)]]

\* voigt_fwhm(dD, dL), line 1300
voigt_fwhm(dD, dL) == Calc(<<"voigt_fwhm", dD, dL>>)

Calc_voigt_fwhm(dD, dL) == PyAdd[PyMul[np_a, dL], voigt_fwhm_root(dD, dL)]

\* f = 0.02/100.
voigt_fwhm_f == PyDiv[PyRound[ZInt[2], NPow10[2]], PyOfInt[100]]

\* dT1 of voigt_fwhm_err, line 1325: the square of a + (b*dL/root)*ddL
voigt_fwhm_dT1(dD, dL, ddL) ==
    np_square(PyAdd[np_a, PyMul[PyDiv[PyMul[np_b, dL], voigt_fwhm_root(dD, dL)],
                                ddL]])

\* dT2 of voigt_fwhm_err, line 1326
voigt_fwhm_dT2(dD, dL, ddD) ==
    np_square(PyDiv[PyMul[dD, ddD], voigt_fwhm_root(dD, dL)])

\* voigt_fwhm_err(dD, dL, ddD, ddL), lines 1303-1332
voigt_fwhm_err(dD, dL, ddD, ddL) == Calc(<<"voigt_fwhm_err", dD, dL, ddD, ddL>>)

Calc_voigt_fwhm_err(dD, dL, ddD, ddL) ==
    IF voigt_fwhm_root(dD, dL).M = <<>> THEN np_nan
    ELSE LET dT == PySqrt[PyAdd[voigt_fwhm_dT1(dD, dL, ddL),
                                voigt_fwhm_dT2(dD, dL, ddD)]]
         IN  PySqrt[PyAdd[np_square(dT),
                          np_square(PyMul[voigt_fwhm_f, voigt_fwhm(dD, dL)])]]

\* b - a*a and a*a - b
np_b_aa == PySub[np_b, PyMul[np_a, np_a]]

np_den == PySub[PyMul[np_a, np_a], np_b]

\* d of dv_minus_doppler, line 237
np_d(dV, dD) ==
    PySub[np_square(PyMul[PyMul[PyOfInt[2], np_a], dV]),
          PyMul[PyMul[PyOfInt[4], np_b_aa], PySub[np_square(dD), np_square(dV)]]]

\* mutant of np_dL_p: the other root
np_dL_p_minus(dV, d) ==
    PyDiv[PySub[PyMul[PyMul[PyOfInt[-2], np_a], dV], PySqrt[d]],
          PyMul[PyOfInt[2], np_b_aa]]

\* dL_p of dv_minus_doppler, line 243
np_dL_p(dV, d) ==
    PyDiv[PyAdd[PyMul[PyMul[PyOfInt[-2], np_a], dV], PySqrt[d]],
          PyMul[PyOfInt[2], np_b_aa]]

\* dL_m of dv_minus_doppler, line 244
np_dL_m(dV, d) ==
    PyDiv[PySub[PyMul[PyMul[PyOfInt[-2], np_a], dV], PySqrt[d]],
          PyMul[PyOfInt[2], np_b_aa]]

\* ddL1 of dv_minus_doppler, lines 248 and 251; minus in the dL_m branch
np_ddL1(minus, dV, d) ==
    LET frac == PyDiv[PyAdd[PyMul[PyMul[np_a, np_a], dV],
                            PyMul[PyMul[PyOfInt[8], np_b_aa], dV]],
                      PySqrt[d]]
        m2a == PyMul[PyOfInt[-2], np_a]
    IN  PyDiv[IF minus THEN PySub[m2a, frac] ELSE PyAdd[m2a, frac],
              PyMul[PyOfInt[2], np_b_aa]]

\* ddL of both functions, lines 255 and 298; ddD is not read
np_ddL(ddL1, ddL2, ddV, ddD) ==
    PySqrt[PyAdd[np_square(PyMul[ddL1, ddV]), np_square(PyMul[ddL2, ddV])]]

\* dv_minus_doppler(dV, ddV, dD, ddD) in doubles, lines 219-257
dv_minus_doppler_np(dV, ddV, dD, ddD) ==
    Calc(<<"dv_minus_doppler_np", dV, ddV, dD, ddD>>)

Calc_dv_minus_doppler_np(dV, ddV, dD, ddD) ==
    LET d == np_d(dV, dD)
        dL_p == np_dL_p(dV, d)
        dL_m == np_dL_m(dV, d)
        take_m == PyLess(dL_m, dV)
        ddL1 == np_ddL1(take_m, dV, d)
        ddL2 == PyDiv[PyMul[PyMul[PyOfInt[4], np_b_aa], dD], PySqrt[d]]
    IN  IF d.neg THEN Return(Scalar(0))
        ELSE Return(Pair(IF take_m THEN dL_m ELSE dL_p,
                         IF d.M = <<>> THEN np_nan
                         ELSE np_ddL(ddL1, ddL2, ddV, ddD)))

\* d of dv_minus_doppler2, lines 278-280
np_d2(dV, dD) ==
    PySub[np_square(PyMul[np_a, dV]),
          PyMul[np_den, PySub[np_square(dV), np_square(dD)]]]

\* ddL1 of dv_minus_doppler2, lines 291 and 294; plus in the dL_m branch
np_ddL1_2(plus, dV, d) ==
    LET frac == PyDiv[PySub[PyMul[PyMul[np_a, np_a], dV], PyMul[dV, np_den]],
                      PySqrt[d]]
    IN  PyDiv[IF plus THEN PyAdd[np_a, frac] ELSE PySub[np_a, frac], np_den]

\* dv_minus_doppler2(dV, ddV, dD, ddD) in doubles, lines 260-300
dv_minus_doppler2_np(dV, ddV, dD, ddD) ==
    Calc(<<"dv_minus_doppler2_np", dV, ddV, dD, ddD>>)

Calc_dv_minus_doppler2_np(dV, ddV, dD, ddD) ==
    LET d == np_d2(dV, dD)
        dL_p == PyDiv[PyAdd[PyMul[np_a, dV], PySqrt[d]], np_den]
        dL_m == PyDiv[PySub[PyMul[np_a, dV], PySqrt[d]], np_den]
        take_m == PyLess(dL_m, dV)
        ddL1 == np_ddL1_2(take_m, dV, d)
        ddL2 == PyDiv[dD, PySqrt[d]]
    IN  IF d.neg THEN Return(Scalar(0))
        ELSE Return(Pair(IF take_m THEN dL_m ELSE dL_p,
                         IF d.M = <<>> THEN np_nan
                         ELSE np_ddL(ddL1, ddL2, ddV, ddD)))

\* x**3 for a double x
np_cube(x) ==
    PyRound[ZMul[ZMul[PyNum[x], PyNum[x]], PyNum[x]],
            NMul[NMul[PyDen[x], PyDen[x]], PyDen[x]]]

\* the literal m/10^e
np_literal(m, e) == PyRound[ZInt[m], NPow10[e]]

\* c of voigt_area and voigt_area_err, lines 1235-1238 and 1270-1273:
\* l = 0.5*gamma, g = sqrt(2 ln 2)*sigma, k = g/(g + l),
\* c = 1.572 + 0.05288*k + -1.323*k**2 + 0.7658*k**3
voigt_area_c(gamma, sigma) == Calc(<<"voigt_area_c", gamma, sigma>>)

Calc_voigt_area_c(gamma, sigma) ==
    LET l == PyMul[np_literal(5, 1), gamma]
        g == PyMul[PySqrt[PyMul[PyOfInt[2], np_log_2]], sigma]
        k == PyDiv[g, PyAdd[g, l]]
    IN  IF PyAdd[g, l].M = <<>> THEN np_nan
        ELSE PyAdd[PyAdd[PyAdd[np_literal(1572, 3), PyMul[np_literal(5288, 5), k]],
                         PyMul[np_literal(-1323, 3), np_square(k)]],
                   PyMul[np_literal(7658, 4), np_cube(k)]]

\* voigt_area(amp, fwhm, gamma, sigma), lines 1229-1240
voigt_area(amp, fwhm, gamma, sigma) == Calc(<<"voigt_area", amp, fwhm, gamma, sigma>>)

Calc_voigt_area(amp, fwhm, gamma, sigma) ==
    LET c == voigt_area_c(gamma, sigma)
    IN  IF c = np_nan THEN np_nan ELSE PyMul[PyMul[c, amp], fwhm]

\* err_c of voigt_area_err, line 1277: area/c*0.5/100.0
voigt_area_err_c(area, c) ==
    PyDiv[PyMul[PyDiv[area, c], np_literal(5, 1)], PyOfInt[100]]

\* voigt_area_err(area, amp, damp, fwhm, dfwhm, gamma, sigma), lines
\* 1264-1281.  With amp = 0 or fwhm = 0 a quotient is 0/0 (nan) or x/0 (inf),
\* and inf*0 is nan.
voigt_area_err(area, amp, damp, fwhm, dfwhm, gamma, sigma) ==
    Calc(<<"voigt_area_err", area, amp, damp, fwhm, dfwhm, gamma, sigma>>)

Calc_voigt_area_err(area, amp, damp, fwhm, dfwhm, gamma, sigma) ==
    LET c == voigt_area_c(gamma, sigma)
        err_a == PyMul[PyDiv[area, amp], damp]
        err_f == PyMul[PyDiv[area, fwhm], dfwhm]
        err_c == voigt_area_err_c(area, c)
    IN  IF c = np_nan \/ area = np_nan THEN np_nan
        ELSE IF amp.M = <<>> \/ fwhm.M = <<>>
        THEN IF \/ area.M = <<>>
                \/ amp.M = <<>> /\ damp.M = <<>>
                \/ fwhm.M = <<>> /\ dfwhm.M = <<>>
             THEN np_nan
             ELSE [t |-> "inf"]
        ELSE PySqrt[PyAdd[PyAdd[np_square(err_a), np_square(err_f)],
                          np_square(err_c)]]

\* 0.005*|area|
np_half_percent(area) == Calc(<<"np_half_percent", area>>)

Calc_np_half_percent(area) ==
    PyMul[np_literal(5, 3), PyFloat(FALSE, PyFloatValue(area))]

(***************************************************************************)
(* rrlmod.py: the loaders that walk a directory or a list of grid files,   *)
(* and the other callers of load_bn.  A file name is cut at its            *)
(* underscores to find the temperature and the density of the grid.        *)
(***************************************************************************)
\* the pieces of a name that hold an underscore, cut at their underscores
UnderscoreFields(tok) ==
    CASE tok = "Carbon_opt_T_" -> << <<"Carbon">>, <<"opt">>, <<"T">>, <<>> >>
      [] tok = "_opt_T_" -> << <<>>, <<"opt">>, <<"T">>, <<>> >>
      [] tok = "_ne_" -> << <<>>, <<"ne">>, <<>> >>
      [] tok = "_ncrit_" -> << <<>>, <<"ncrit">>, <<>> >>
      [] tok = "_" -> << <<>>, <<>> >>
      [] tok = "_vriens_delta_500_vrinc_nmax_9900" ->
             << <<>>, <<"vriens">>, <<"delta">>, <<"500">>, <<"vrinc">>, <<"nmax">>,
                <<"9900">> >>
      [] tok = "_dat" -> << <<>>, <<"dat">> >>
      [] tok = "bn_beta" -> << <<"bn">>, <<"beta">> >>
      [] tok = "bbn2_CIalpha" -> << <<"bbn2">>, <<"CIalpha">> >>
      [] OTHER -> << <<tok>> >>

RECURSIVE split_underscore(_)
\* x.split('_')
split_underscore(x) ==
    IF x = <<>> THEN << <<>> >>
    ELSE LET f == UnderscoreFields(x[1])
             rest == split_underscore(Tail(x))
         IN  SubSeq(f, 1, Len(f) - 1) \o << f[Len(f)] \o rest[1] >> \o Tail(rest)

RECURSIVE join_underscore(_)
\* '_'.join(fields)
join_underscore(fields) ==
    IF fields = <<>> THEN <<>>
    ELSE IF Len(fields) = 1 THEN fields[1]
    ELSE fields[1] \o <<"_">> \o join_underscore(Tail(fields))

RECURSIVE rstrip_0(_)
\* s.rstrip('0')
rstrip_0(s) ==
    IF s # <<>> /\ s[Len(s)] = "0" THEN rstrip_0(SubSeq(s, 1, Len(s) - 1)) ELSE s

\* the key that sorted gives a model: (str2val(x.split('_')[it]),
\* float(x.split('_')[idn]), str2val(x.split('_')[itr]) if len(x.split('_')) >
\* 17 else 0), or the exception of the first step that fails
model_key(x, it, idn, itr) == Calc(<<"model_key", x, it, idn, itr>>)

Calc_model_key(x, it, idn, itr) ==
    LET fs == split_underscore(x)
        a == str2val(fs[it + 1])
        c == IF Len(fs) > 17 THEN str2val(fs[itr + 1]) ELSE Return(PyInt(0))
    IN  IF Len(fs) <= it THEN Raise("IndexError")
        ELSE IF a.kind = "raise" THEN a
        ELSE IF Len(fs) <= idn THEN Raise("IndexError")
        ELSE IF ~float_ok(fs[idn + 1]) THEN Raise("ValueError")
        ELSE IF c.kind = "raise" THEN c
        ELSE Return(<<a.val, float(fs[idn + 1]), c.val>>)

\* a component of a key as a double
KeyNum(v) == IF v.t = "int" THEN PyOfInt[v.v] ELSE v

\* the order of two keys
KeyLess(a, b) ==
    \E i \in 1..3 :
        /\ PyLess(KeyNum(a[i]), KeyNum(b[i]))
        /\ \A j \in 1..(i - 1) : KeyNum(a[j]) = KeyNum(b[j])

\* sorted(models, key=...): a stable sort.  natural_sort has ordered the
\* names before; that decides the order of models of equal keys only, which
\* are left here in the order of the listing.
py_sorted(models, it, idn, itr) ==
    LET key(i) == model_key(models[i], it, idn, itr).val
        rank(i) == 1 + Cardinality({j \in 1..Len(models) :
                                       \/ KeyLess(key(j), key(i))
                                       \/ ~KeyLess(key(i), key(j)) /\ j < i})
    IN  [r \in 1..Len(models) |-> models[CHOOSE i \in 1..Len(models) : rank(i) = r]]

\* the outcome of the first key that raises, NoRet when none does
py_sorted_raises(models, it, idn, itr) ==
    LET bad == {i \in 1..Len(models) : model_key(models[i], it, idn, itr).kind = "raise"}
    IN  IF bad = {} THEN NoRet
        ELSE model_key(models[CHOOSE i \in bad : \A j \in bad : i <= j], it, idn, itr)

\* def load_bn(te, ne, tr='', ncrit='1.5d3', n_min=5, n_max=1000,
\* verbose=False, location=LOCALDIR), line 557
load_bn_params == <<"te", "ne", "tr", "ncrit", "n_min", "n_max", "verbose", "location">>

load_bn_defaults == {"tr", "ncrit", "n_min", "n_max", "verbose", "location"}

\* the calls of load_bn in rrlmod.py: the number of positional arguments and
\* the keywords, lines 665, 723, 474, 1090 and 1118
load_bn_calls ==
    [load_bn_all |-> [k |-> 2, keywords |-> {"Tr", "n_min", "n_max", "verbose"}],
     load_bn_dict |-> [k |-> 2, keywords |-> {"n_min", "n_max", "tr", "ncrit", "verbose",
                                              "location"}],
     kappa_line |-> [k |-> 2, keywords |-> {"other"}],
     make_betabn |-> [k |-> 2, keywords |-> {"other"}],
     make_betabn2 |-> [k |-> 2, keywords |-> {"other"}]]

\* the call of load_bn in the function f binds
load_bn_binds(f) ==
    PyCallBinds(load_bn_params, load_bn_defaults, load_bn_calls[f].k,
                load_bn_calls[f].keywords)

\* [Te, ne, Tr, data] with the entries of model i set
models_store(out, i, te, ne, tr, rows) ==
    <<[out[1] EXCEPT ![i] = te], [out[2] EXCEPT ![i] = ne], [out[3] EXCEPT ![i] = tr],
      data_store(out[4], i, rows)>>

\* Te = np.zeros(len(models)), ne, Tr and data = np.zeros((len(models), ...,
\* width))
models_zeros(len, width) ==
    <<[i \in 1..len |-> PyInt(0)], [i \in 1..len |-> PyInt(0)], [i \in 1..len |-> <<>>],
      np_zeros(len, width)>>

RECURSIVE load_bn_all_loop(_, _, _, _, _, _, _)
\* the loop of load_bn_all from model i on, lines 653-671
load_bn_all_loop(models, n_min, n_max, listing, i, out, files) ==
    IF i > Len(models) THEN Outcome(Return(out), files)
    ELSE LET fs == split_underscore(models[i])
             st == fs[4]
             te == str2val(st)
             sn == rstrip_0(fs[6])
             tr == IF Len(fs) <= 17 THEN <<"-">> ELSE join_underscore(SubSeq(fs, 9, 11))
             bn == load_bn(st, sn, tr, <<"1.5d3">>, n_min, n_max, LOCALDIR, listing)
         IN  IF te.kind = "raise" THEN Outcome(te, files)
             ELSE IF ~float_ok(sn) THEN Outcome(Raise("ValueError"), files)
             ELSE IF ~load_bn_binds("load_bn_all") THEN Outcome(Raise("TypeError"), files)
             ELSE IF bn.ret.kind = "raise" THEN Outcome(bn.ret, files)
             ELSE IF ~numpy_fits(Len(bn.ret.val), n_max - n_min)
             THEN Outcome(Raise("ValueError"), files \o bn.reads)
             ELSE load_bn_all_loop(models, n_min, n_max, listing, i + 1,
                                   models_store(out, i, te.val, float(sn), tr,
                                                numpy_store(bn.ret.val, n_max - n_min)),
                                   files \o bn.reads)

\* load_bn_all(n_min, n_max, verbose, location), lines 635-673
load_bn_all(n_min, n_max, location, listing) ==
    Calc(<<"load_bn_all", n_min, n_max, location, listing>>)

Calc_load_bn_all(n_min, n_max, location, listing) ==
    LET found == glob(location \o <<"/", "bn2", "/", "*", "_dat">>, listing)
        raised == py_sorted_raises(found, 3, 5, 10)
    IN  IF raised # NoRet THEN Outcome(raised, <<>>)
        ELSE IF n_max - n_min < 0 THEN Outcome(Raise("ValueError"), <<>>)
        ELSE load_bn_all_loop(py_sorted(found, 3, 5, 10), n_min, n_max, listing, 1,
                              models_zeros(Len(found), n_max - n_min), <<>>)

RECURSIVE load_models_loop(_, _, _, _, _, _, _, _)
\* the loop of load_models from model i on, lines 1063-1078; itau is called
\* without n_min, which is 5 then
load_models_loop(models, trans, n_max, value, listing, i, out, files) ==
    IF i > Len(models) THEN Outcome(Return(out), files)
    ELSE LET fs == split_underscore(models[i])
             st == fs[5]
             te == str2val(st)
             sn == rstrip_0(fs[7])
             other == IF Len(fs) <= 17 THEN <<"-">>
                      ELSE join_underscore(SubSeq(fs, 10, 12))
             one == itau(st, sn, trans, 5, n_max, other, value, LOCALDIR, listing)
         IN  IF te.kind = "raise" THEN Outcome(te, files)
             ELSE IF ~float_ok(sn) THEN Outcome(Raise("ValueError"), files)
             ELSE IF one.ret.kind = "raise" THEN Outcome(one.ret, files)
             ELSE IF ~numpy_fits(Len(one.ret.val[1]), n_max)
             THEN Outcome(Raise("ValueError"), files \o one.reads)
             ELSE load_models_loop(models, trans, n_max, value, listing, i + 1,
                                   models_store(out, i, te.val, float(sn), other,
                                                <<numpy_store(one.ret.val[1], n_max),
                                                  numpy_store(one.ret.val[2], n_max)>>),
                                   files \o one.reads)

\* load_models(models, trans, n_max, verbose, value), lines 1046-1080
load_models(models, trans, n_max, value, listing) ==
    Calc(<<"load_models", models, trans, n_max, value, listing>>)

Calc_load_models(models, trans, n_max, value, listing) ==
    LET raised == py_sorted_raises(models, 4, 6, 11)
    IN  IF raised # NoRet THEN Outcome(raised, <<>>)
        ELSE IF n_max < 0 THEN Outcome(Raise("ValueError"), <<>>)
        ELSE load_models_loop(py_sorted(models, 4, 6, 11), trans, n_max, value, listing, 1,
                              models_zeros(Len(models), n_max), <<>>)

\* kappa_line(Te, ne, nion, Z, Tr, trans, n_max), lines 448-480, of the
\* temperatures m * 10^e that Te and Tr denote: the call
\* load_bn(val2str(Te), ne, other='case_diffuse_...') of line 474; what
\* follows it is kept as an expression
kappa_line(Te, ne, Tr, trans, n_max) == Calc(<<"kappa_line", Te, ne, Tr, trans, n_max>>)

Calc_kappa_line(Te, ne, Tr, trans, n_max) ==
    LET te == val2str(ArgVal(Te))
        tr == val2str(ArgVal(Tr))
    IN  IF te.kind = "raise" THEN te
        ELSE IF tr.kind = "raise" THEN tr
        ELSE IF ~load_bn_binds("kappa_line") THEN Raise("TypeError")
        ELSE Return([expr |-> "kappa_line", te |-> te.val, ne |-> ne,
                     other |-> <<"case_diffuse_">> \o tr.val, trans |-> trans,
                     n_max |-> n_max])

\* make_betabn(line, temp, dens, n_min, n_max, other), lines 1083-1107, and
\* make_betabn2, lines 1110-1137, which does not convert dens: up to the call
\* load_bn(temp, dens, other=other); what follows it is kept as an expression
make_betabn(line, temp, dens, other, converts) ==
    Calc(<<"make_betabn", line, temp, dens, other, converts>>)

Calc_make_betabn(line, temp, dens, other, converts) ==
    LET t == str2val(temp)
        d == str2val(dens)
    IN  IF t.kind = "raise" THEN t
        ELSE IF converts /\ d.kind = "raise" THEN d
        ELSE IF ~load_bn_binds(IF converts THEN "make_betabn" ELSE "make_betabn2")
        THEN Raise("TypeError")
        ELSE Return([expr |-> "make_betabn", line |-> line, t |-> t.val, temp |-> temp,
                     dens |-> dens, other |-> other])

(***************************************************************************)
(* stack_cubes.py: the cubes are stacked on the velocity axis              *)
(* np.arange(vmin, vmax, dv).  A cube file is its header, the keywords of  *)
(* the velocity axis; its data stay symbolic, the value a cube has at a    *)
(* velocity being named by the cube and the velocity.  One voxel stands    *)
(* for all voxels of a channel: the spatial points of a cube are its own   *)
(* grid points.  The velocity axes are ascending.                          *)
(***************************************************************************)
\* the array of the len values a[1], ..., a[len]
np_asarray(a, len) == SubSeq(a, 1, len)

\* np.ceil of a double, as an integer
np_ceil(x) ==
    LET q == NDivMod[PyNum[x].mag, PyDen[x]]
        k == NLimb(q.quot, 1) + Base * NLimb(q.quot, 2)
    IN  IF x.neg THEN -k ELSE IF q.rem = <<>> THEN k ELSE k + 1

\* np.arange(start, stop, step) of doubles, step > 0: ceil((stop - start) /
\* step) values, the first two start and start + step, the others start +
\* i*delta for delta = (start + step) - start
np_arange(start, stop, step) == Calc(<<"np_arange", start, stop, step>>)

Calc_np_arange(start, stop, step) ==
    LET len == Max(0, np_ceil(PyDiv[PySub[stop, start], step]))
        next == PyAdd[start, step]
        delta == PySub[next, start]
    IN  np_asarray([i \in 1..len |->
                       IF i = 1 THEN start
                       ELSE IF i = 2 THEN next
                       ELSE PyAdd[start, PyMul[PyOfInt[i - 1], delta]]], len)

\* crrls.get_axis(header, axis) for the velocity axis, lines 516-537
get_axis(header) == Calc(<<"get_axis", header>>)

Calc_get_axis(header) ==
    LET dx == header.CDELT3
        p0 == header.CRPIX3 - 1
        x0 == header.CRVAL3
        n == header.NAXIS3
        start == PySub[x0, PyMul[PyOfInt[p0], dx]]
        axis == np_arange(start, PyAdd[start, PyMul[PyOfInt[n], dx]], dx)
    IN  IF Len(axis) > n THEN SubSeq(axis, 1, Len(axis) - 1) ELSE axis

RECURSIVE py_max_from(_, _, _)
\* max(x) and min(x) of a sequence of doubles: the first of the largest
\* (smallest) of x[i], x[i + 1], ... and best
py_max_from(x, i, best) ==
    IF i > Len(x) THEN best
    ELSE py_max_from(x, i + 1, IF PyLess(best, x[i]) THEN x[i] ELSE best)

py_max(x) == py_max_from(x, 2, x[1])

RECURSIVE py_min_from(_, _, _)
py_min_from(x, i, best) ==
    IF i > Len(x) THEN best
    ELSE py_min_from(x, i + 1, IF PyLess(x[i], best) THEN x[i] ELSE best)

py_min(x) == py_min_from(x, 2, x[1])

\* utils.get_min_sep(x): the smallest separation of two consecutive points
get_min_sep(x) == Calc(<<"get_min_sep", x>>)

Calc_get_min_sep(x) ==
    LET sep(i) == LET d == PySub[x[i + 1], x[i]] IN IF d.neg THEN PyNeg[d] ELSE d
    IN  py_min(np_asarray([i \in 1..(Len(x) - 1) |-> sep(i)], Len(x) - 1))

\* the names bound by the loop of lines 30-42, over the cubes from i on;
\* axes[i] is the velocity axis of cube i
RECURSIVE stack_dv_loop(_, _, _)
stack_dv_loop(axes, i, bound) ==
    IF i > Len(axes) THEN bound
    ELSE LET x == axes[i]
             sep == get_min_sep(x)
         IN  stack_dv_loop(axes, i + 1,
                           IF i = 1
                           THEN [dv |-> sep, vmax_min |-> py_max(x), vmin_max |-> py_min(x)]
                           ELSE [dv |-> IF PyLess(bound.dv, sep) THEN sep ELSE bound.dv,
                                 vmax_min |-> IF PyLess(py_max(x), bound.vmax_min)
                                              THEN py_max(x) ELSE bound.vmax_min,
                                 vmin_max |-> IF PyLess(bound.vmin_max, py_min(x))
                                              THEN py_min(x) ELSE bound.vmin_max])

\* the weight of a cube, lines 91-94
stack_w(weight_list, cube) == IF weight_list.given THEN weight_list.w[cube] ELSE 1

\* RegularGridInterpolator: a point outside the grid is a ValueError
interp_in_bounds(ve, v) == ~PyLess(v, ve[1]) /\ ~PyLess(ve[Len(ve)], v)

\* the cube is added to the weight of channel k, line 161
stack_weighs(ve, v) == TRUE

\* stack[k] and weight[k] after the loop of lines 81-161 over the cubes, as
\* the terms that were added; in 'vector' mode a point outside a cube ends
\* the call, in 'channel' mode it is caught and the channel is skipped, lines
\* 147-155
stack_terms(cubel, axes, weight_list, nvaxis, k) == Calc(<<"stack_terms", cubel, axes, weight_list, nvaxis, k>>)

Calc_stack_terms(cubel, axes, weight_list, nvaxis, k) ==
    LET all == [i \in 1..Len(cubel) |-> i]
        adds == SelectSeq(all, LAMBDA i : interp_in_bounds(axes[i], nvaxis[k]))
        weighs == SelectSeq(all, LAMBDA i : stack_weighs(axes[i], nvaxis[k]))
    IN  [stack |-> np_asarray([i \in 1..Len(adds) |->
                                  [cube |-> cubel[adds[i]], at |-> nvaxis[k],
                                   w |-> stack_w(weight_list, cubel[adds[i]])]],
                              Len(adds)),
         weight |-> np_asarray([i \in 1..Len(weighs) |->
                                   [cube |-> cubel[weighs[i]],
                                    w |-> stack_w(weight_list, cubel[weighs[i]])]],
                               Len(weighs))]

\* the header keywords written with the stack, lines 169-174
stack_header(nvaxis, dv) ==
    [CTYPE3 |-> "VELO", CRVAL3 |-> nvaxis[1], CDELT3 |-> dv, CRPIX3 |-> 1, CUNIT3 |-> "m/s",
     NAXIS3 |-> Len(nvaxis)]

\* stack_cubes from line 59 on, dv and hdu being bound
stack_from_shape(cubel, axes, outfits, vmax, vmin, dv, weight_list, algo) == Calc(<<"stack_from_shape", cubel, axes, outfits, vmax, vmin, dv, weight_list, algo>>)

Calc_stack_from_shape(cubel, axes, outfits, vmax, vmin, dv, weight_list, algo) ==
    LET nvaxis == np_arange(vmin, vmax, dv)
        terms == np_asarray([k \in 1..Len(nvaxis) |->
                                stack_terms(cubel, axes, weight_list, nvaxis, k)],
                            Len(nvaxis))
        outside == \E k \in 1..Len(nvaxis) : Len(terms[k].stack) < Len(cubel)
        head == stack_header(nvaxis, dv)
    IN  IF algo \notin {"vector", "channel"} /\ cubel # <<>>
        THEN [ret |-> Raise("SystemExit"), files |-> <<>>, reads |-> cubel]
        ELSE IF algo = "vector" /\ outside THEN [ret |-> Raise("ValueError"), files |-> <<>>, reads |-> cubel]
        ELSE IF cubel = <<>> \/ nvaxis = <<>> THEN [ret |-> Raise("IndexError"), files |-> <<>>, reads |-> cubel]
        ELSE [ret |-> Return("None"), reads |-> cubel,
              files |-> << <<outfits \o <<".fits">>,
                             head @@ [data |-> [k \in 1..Len(nvaxis) |->
                                                   [num |-> terms[k].stack,
                                                    den |-> terms[k].weight]]]>>,
                           <<outfits \o <<"_weight", ".fits">>,
                             head @@ [data |-> [k \in 1..Len(nvaxis) |->
                                                   terms[k].weight]]>> >>]

\* stack_cubes(cubes, outfits, vmax, vmin, dv, weight_list, v_axis, clobber,
\* algo), lines 19-185, for v_axis = 3 and an outfits that does not exist.
\* hdu, vmax_min and vmin_max are bound in the loop of lines 30-42 only.
stack_cubes(cubes, outfits, vmax, vmin, dv, weight_list, algo, files, listing) ==
    Calc(<<"stack_cubes", cubes, outfits, vmax, vmin, dv, weight_list, algo, files, listing>>)

Calc_stack_cubes(cubes, outfits, vmax, vmin, dv, weight_list, algo, files, listing) ==
    LET cubel == glob(cubes, listing)
        axes == np_asarray([i \in 1..Len(cubel) |-> get_axis(files[cubel[i]])], Len(cubel))
        bound == stack_dv_loop(axes, 1, [dv |-> dv])
    IN  IF dv # PyOfInt[0] THEN [ret |-> Raise("UnboundLocalError"), files |-> <<>>, reads |-> <<>>]
        ELSE IF cubel = <<>> THEN [ret |-> Raise("UnboundLocalError"), files |-> <<>>, reads |-> <<>>]
        ELSE IF PyLess(bound.vmax_min, vmax) \/ PyLess(vmin, bound.vmin_max)
        THEN [ret |-> Raise("SystemExit"), files |-> <<>>, reads |-> cubel]
        ELSE stack_from_shape(cubel, axes, outfits, vmax, vmin, bound.dv, weight_list, algo)

(***************************************************************************)
(* A caller that holds its numbers as ints and decimals m * 10^-e passes   *)
(* them as doubles.  CallOn(f, a, prev) is the call of f on the numbers of *)
(* a, prev being the result of the caller's earlier call where f takes it. *)
(***************************************************************************)
\* gamma = 1e-8
ProfileGamma == PyRound[ZInt[1], NPow10[8]]

CallOn(f, a, prev) == Calc(<<"CallOn", f, a, prev>>)

Calc_CallOn(f, a, prev) ==
    CASE f = "gaussian" ->
             gaussian(PyOfInt[a.x], PyRound[ZInt[a.sigma.m], NPow10[a.sigma.e]],
                      PyOfInt[a.center], PyOfInt[a.amplitude])
      [] f = "voigt" ->
             voigt(PyOfInt[a.x], PyRound[ZInt[a.sigma.m], NPow10[a.sigma.e]], ProfileGamma,
                   PyOfInt[a.center], PyOfInt[a.amplitude])
      [] f = "doppler_broad" ->
             doppler_broad(PyOfInt[a.t], PyOfInt[a.m], PyOfInt[a.vrms], a.fwhm)
      [] f = "doppler_temp" ->
             doppler_temp(prev, PyOfInt[a.m], PyOfInt[a.vrms], a.fwhm)

(***************************************************************************)
(* The evaluator: the value of the operation e[1] on the operands that     *)
(* follow it.                                                              *)
(***************************************************************************)
Calc(e) ==
    CASE e[1] = "NAdd" -> Calc_NAdd(e[2], e[3])
      [] e[1] = "NCmp" -> Calc_NCmp(e[2], e[3])
      [] e[1] = "NMulLimb" -> Calc_NMulLimb(e[2], e[3])
      [] e[1] = "NMul" -> Calc_NMul(e[2], e[3])
      [] e[1] = "NSub" -> Calc_NSub(e[2], e[3])
      [] e[1] = "NDivMod" -> Calc_NDivMod(e[2], e[3])
      [] e[1] = "ZAdd" -> Calc_ZAdd(e[2], e[3])
      [] e[1] = "SMk" -> Calc_SMk(e[2], e[3], e[4], e[5])
      [] e[1] = "SAdd" -> Calc_SAdd(e[2], e[3])
      [] e[1] = "SMul" -> Calc_SMul(e[2], e[3])
      [] e[1] = "SInv" -> Calc_SInv(e[2])
      [] e[1] = "SNeg" -> Calc_SNeg(e[2])
      [] e[1] = "SRat" -> Calc_SRat(e[2], e[3])
      [] e[1] = "SSqrt" -> Calc_SSqrt(e[2])
      [] e[1] = "SCmp" -> Calc_SCmp(e[2], e[3])
      [] e[1] = "SignSurd" -> Calc_SignSurd(e[2], e[3], e[4])
      [] e[1] = "Sign3" -> Calc_Sign3(e[2], e[3], e[4], e[5], e[6])
      [] e[1] = "NRoundDiv" -> Calc_NRoundDiv(e[2], e[3])
      [] e[1] = "FScale" -> Calc_FScale(e[2], e[3])
      [] e[1] = "FRound" -> Calc_FRound(e[2], e[3])
      [] e[1] = "FMul" -> Calc_FMul(e[2], e[3])
      [] e[1] = "FDiv" -> Calc_FDiv(e[2], e[3])
      [] e[1] = "FNum" -> Calc_FNum(e[2])
      [] e[1] = "FDen" -> Calc_FDen(e[2])
      [] e[1] = "FIsInteger" -> Calc_FIsInteger(e[2])
      [] e[1] = "FPow10" -> Calc_FPow10(e[2])
      [] e[1] = "Log10Floor" -> Calc_Log10Floor(e[2], e[3])
      [] e[1] = "FFloorLog10" -> Calc_FFloorLog10(e[2])
      [] e[1] = "float" -> Calc_float(e[2])
      [] e[1] = "str2val" -> Calc_str2val(e[2])
      [] e[1] = "val2str" -> Calc_val2str(e[2])
      [] e[1] = "dv_minus_doppler" -> Calc_dv_minus_doppler(e[2], e[3], e[4], e[5])
      [] e[1] = "dv_minus_doppler2" -> Calc_dv_minus_doppler2(e[2], e[3], e[4], e[5])
      [] e[1] = "dmd_roots" -> Calc_dmd_roots(e[2], e[3])
      [] e[1] = "dmd2_roots" -> Calc_dmd2_roots(e[2], e[3])
      [] e[1] = "ArgVal" -> Calc_ArgVal(e[2])
      [] e[1] = "FWithinUlp" -> Calc_FWithinUlp(e[2], e[3])
      [] e[1] = "DecLog10Floor" -> Calc_DecLog10Floor(e[2])
      [] e[1] = "PyAdd" -> Calc_PyAdd(e[2], e[3])
      [] e[1] = "pressure_broad_coefs" -> Calc_pressure_broad_coefs(e[2], e[3])
      [] e[1] = "pressure_broad_salgado" -> Calc_pressure_broad_salgado(e[2], e[3], e[4], e[5], e[6])
      [] e[1] = "lorentz_width" -> Calc_lorentz_width(e[2], e[3], e[4], e[5], e[6], e[7], e[8])
      [] e[1] = "LinearBetween" -> Calc_LinearBetween(e[2], e[3], e[4], e[5])
      [] e[1] = "itau" -> Calc_itau(e[2], e[3], e[4], e[5], e[6], e[7], e[8], e[9], e[10])
      [] e[1] = "itau_h" -> Calc_itau_h(e[2], e[3], e[4], e[5], e[6], e[7], e[8])
      [] e[1] = "load_itau_dict" -> Calc_load_itau_dict(e[2], e[3], e[4], e[5], e[6], e[7], e[8])
      [] e[1] = "ItauCoef" -> Calc_ItauCoef(e[2])
      [] e[1] = "ItauTimes" -> Calc_ItauTimes(e[2], e[3])
      [] e[1] = "FSqrt" -> Calc_FSqrt(e[2])
      [] e[1] = "gaussian" -> Calc_gaussian(e[2], e[3], e[4], e[5])
      [] e[1] = "voigt" -> Calc_voigt(e[2], e[3], e[4], e[5], e[6])
      [] e[1] = "doppler_broad" -> Calc_doppler_broad(e[2], e[3], e[4], e[5])
      [] e[1] = "doppler_temp" -> Calc_doppler_temp(e[2], e[3], e[4], e[5])
      [] e[1] = "RatWithin" -> Calc_RatWithin(e[2], e[3])
      [] e[1] = "RatTimes" -> Calc_RatTimes(e[2], e[3])
      [] e[1] = "RatCmp" -> Calc_RatCmp(e[2], e[3])
      [] e[1] = "RatOf" -> Calc_RatOf(e[2])
      [] e[1] = "PeakOf" -> Calc_PeakOf(e[2], e[3], e[4])
      [] e[1] = "DopplerWithin" -> Calc_DopplerWithin(e[2], e[3], e[4], e[5])
      [] e[1] = "PyWithin" -> Calc_PyWithin(e[2], e[3], e[4], e[5])
      [] e[1] = "voigt_fwhm" -> Calc_voigt_fwhm(e[2], e[3])
      [] e[1] = "voigt_fwhm_err" -> Calc_voigt_fwhm_err(e[2], e[3], e[4], e[5])
      [] e[1] = "dv_minus_doppler_np" -> Calc_dv_minus_doppler_np(e[2], e[3], e[4], e[5])
      [] e[1] = "dv_minus_doppler2_np" -> Calc_dv_minus_doppler2_np(e[2], e[3], e[4], e[5])
      [] e[1] = "voigt_area_c" -> Calc_voigt_area_c(e[2], e[3])
      [] e[1] = "voigt_area_err" -> Calc_voigt_area_err(e[2], e[3], e[4], e[5], e[6], e[7], e[8])
      [] e[1] = "voigt_area" -> Calc_voigt_area(e[2], e[3], e[4], e[5])
      [] e[1] = "np_half_percent" -> Calc_np_half_percent(e[2])
      [] e[1] = "load_bn_all" -> Calc_load_bn_all(e[2], e[3], e[4], e[5])
      [] e[1] = "load_models" -> Calc_load_models(e[2], e[3], e[4], e[5], e[6])
      [] e[1] = "kappa_line" -> Calc_kappa_line(e[2], e[3], e[4], e[5], e[6])
      [] e[1] = "make_betabn" -> Calc_make_betabn(e[2], e[3], e[4], e[5], e[6])
      [] e[1] = "model_key" -> Calc_model_key(e[2], e[3], e[4], e[5])
      [] e[1] = "load_bn" ->
             Calc_load_bn(e[2], e[3], e[4], e[5], e[6], e[7], e[8], e[9])
      [] e[1] = "stack_cubes" ->
             Calc_stack_cubes(e[2], e[3], e[4], e[5], e[6], e[7], e[8], e[9], e[10])
      [] e[1] = "np_arange" -> Calc_np_arange(e[2], e[3], e[4])
      [] e[1] = "get_axis" -> Calc_get_axis(e[2])
      [] e[1] = "get_min_sep" -> Calc_get_min_sep(e[2])
      [] e[1] = "stack_terms" -> Calc_stack_terms(e[2], e[3], e[4], e[5], e[6])
      [] e[1] = "stack_from_shape" ->
             Calc_stack_from_shape(e[2], e[3], e[4], e[5], e[6], e[7], e[8], e[9])
      [] e[1] = "load_bn_dict" ->
             Calc_load_bn_dict(e[2], e[3], e[4], e[5], e[6], e[7])
      [] e[1] = "CallOn" -> Calc_CallOn(e[2], e[3], e[4])

(***************************************************************************)
(* SpecKey: str2val called on an arbitrary key.  The letter x stands for   *)
(* any character that belongs to no float literal.                         *)
(***************************************************************************)
MaxKeyLen == 5

KeyChars == {"1", "2", "d", ".", "-", "x"}

Keys == UNION {[1..n -> KeyChars] : n \in 0..MaxKeyLen}

KeyInit ==
    /\ args \in [str : Keys]
    /\ ret = [f \in {"str2val"} |-> NoRet]
    /\ disk = {}
    /\ reads = <<>>

Call_str2val ==
    /\ ret["str2val"] = NoRet
    /\ ret' = [ret EXCEPT !["str2val"] = str2val(args.str)]
    /\ UNCHANGED <<args, disk, reads>>

KeyNext == Call_str2val

SpecKey == KeyInit /\ [][KeyNext]_vars

\* a well-formed key is <mantissa>d<exponent>, both numeric
WellFormedKey(str) ==
    LET toks == str_split(str)
    IN  Len(toks) = 2 /\ float_ok(toks[1]) /\ float_ok(toks[2])

\* C5: str2val returns the sentinel 0, and never raises, for every key that
\* is not <mantissa>d<exponent> with both parts numeric.
C5_MalformedKeyGivesZero ==
    (ret["str2val"] # NoRet /\ ~WellFormedKey(args.str))
        => ret["str2val"] = Return(PyInt(0))

(***************************************************************************)
(* SpecCodec: a caller holds the positive decimal m * 10^e, passes it to   *)
(* val2str and passes the string it gets to str2val.                       *)
(***************************************************************************)
MaxMant == 30

MaxExp == 5

CodecFns == {"val2str", "str2val"}

CodecInit ==
    /\ args \in [m : 1..MaxMant, e : (-MaxExp)..MaxExp]
    /\ ret = [f \in CodecFns |-> NoRet]
    /\ disk = {}
    /\ reads = <<>>

Call_val2str ==
    /\ ret["val2str"] = NoRet
    /\ ret' = [ret EXCEPT !["val2str"] = val2str(ArgVal(args))]
    /\ UNCHANGED <<args, disk, reads>>

Call_str2val_of_val2str ==
    /\ ret["val2str"].kind = "return"
    /\ ret["str2val"] = NoRet
    /\ ret' = [ret EXCEPT !["str2val"] = str2val(ret["val2str"].val)]
    /\ UNCHANGED <<args, disk, reads>>

CodecNext == Call_val2str \/ Call_str2val_of_val2str

SpecCodec == CodecInit /\ [][CodecNext]_vars

\* the decimal t denotes a number in [1, 10)
MantissaInRange(t) ==
    /\ t # <<>>
    /\ IsDigit(t[1]) /\ t[1] # "0"
    /\ Len(t) > 1 => t[2] = "."

\* the values the round trip is documented and tested with: 1, 10, 0.05,
\* 1500 and 200
CodecExamples ==
    {[m |-> 1, e |-> 0], [m |-> 1, e |-> 1], [m |-> 10, e |-> 0],
     [m |-> 5, e |-> -2], [m |-> 15, e |-> 2], [m |-> 2, e |-> 2]}

CodecKeyIsShaped ==
    ret["val2str"] # NoRet =>
        /\ ret["val2str"].kind = "return"
        /\ LET toks == str_split(ret["val2str"].val)
           IN  /\ Len(toks) = 2
               /\ float_ok(toks[1])
               /\ MantissaInRange(toks[1])
               /\ toks[2] = format_int(DecLog10Floor(args))
               /\ FIsInteger[PyFloatValue(float(toks[1]))] => \A i \in 1..Len(toks[1]) : toks[1][i] # "."
        /\ args = [m |-> 2, e |-> 2] => ret["val2str"].val = <<"2", "d", "2">>

TeOffset == 1

BroadFns == {"pressure_broad_coefs", "pressure_broad_salgado", "lorentz_width"}

\* the tabulated temperatures, and the temperatures up to TeOffset away from
\* 10, 100, 1000, 10000 and 30000 K
TeInputs ==
    {pbc_te[k] : k \in 1..Len(pbc_te)}
        \cup {pbc_te[k] + o : k \in {1, 10, 19, 28, 30}, o \in (-TeOffset)..TeOffset}

BroadInit ==
    /\ args \in [Te : TeInputs, interp : {"scipy", "numpy"},
                 n : {100}, ne : {1}, Tr : {2000}, W : {1}, dn : {1}]
    /\ ret = [f \in BroadFns |-> NoRet]
    /\ disk = {}
    /\ reads = <<>>

Call_pressure_broad_coefs ==
    /\ \A f \in BroadFns : ret[f] = NoRet
    /\ ret' = [ret EXCEPT !["pressure_broad_coefs"] =
                   pressure_broad_coefs(args.Te, args.interp)]
    /\ UNCHANGED <<args, disk, reads>>

Call_pressure_broad_salgado ==
    /\ \A f \in BroadFns : ret[f] = NoRet
    /\ ret' = [ret EXCEPT !["pressure_broad_salgado"] =
                   pressure_broad_salgado(args.n, args.Te, args.ne, args.dn, args.interp)]
    /\ UNCHANGED <<args, disk, reads>>

Call_lorentz_width ==
    /\ \A f \in BroadFns : ret[f] = NoRet
    /\ ret' = [ret EXCEPT !["lorentz_width"] =
                   lorentz_width(args.n, args.ne, args.Te, args.Tr, args.W, args.dn,
                                 args.interp)]
    /\ UNCHANGED <<args, disk, reads>>

BroadNext ==
    Call_pressure_broad_coefs \/ Call_pressure_broad_salgado \/ Call_lorentz_width

SpecBroad == BroadInit /\ [][BroadNext]_vars

\* C7: for every Te < 10 and every Te > 30000 pressure_broad_coefs raises,
\* and pressure_broad_salgado and lorentz_width raise the same error: none of
\* the three returns a value extrapolated or clamped to the table.
C7_OutOfRangeRaises ==
    (args.Te < 10 \/ args.Te > 30000) =>
        \A f \in BroadFns : ret[f] # NoRet => ret[f] = Raise("ValueError")

\* Te = 30001: lorentz_width has raised
C7_Witness ==
    /\ args.Te = 30001
    /\ ret["lorentz_width"] = Raise("ValueError")

\* the coefficient c, from the table y, is the tabulated value at the
\* tabulated temperature x[k], and between x[k] and x[k + 1] the point of the
\* straight line through the two tabulated values, to the rounding of a double
TabulatedOrLinear(x, y, c) ==
    \A k \in 1..(Len(x) - 1) :
        /\ args.Te = x[k] => c = Literal7(y[k])
        /\ args.Te = x[k + 1] => c = Literal7(y[k + 1])
        /\ (x[k] < args.Te /\ args.Te < x[k + 1]) =>
               PyWithinUlp(c, LinearBetween(x, y, k, args.Te))

\* C8: the three tables have 30 entries each; at a tabulated temperature
\* pressure_broad_coefs returns exactly the tabulated pair of the same index
\* (at Te = 100 the pair (-9.9613006, 5.3077770)); between two adjacent
\* tabulated temperatures it returns the linear interpolation between the
\* two adjacent pairs.
C8_TabulatedAndLinear ==
    /\ Len(pbc_te) = 30 /\ Len(pbc_a) = 30 /\ Len(pbc_gammac) = 30
    /\ (ret["pressure_broad_coefs"] # NoRet /\ args.Te >= 10 /\ args.Te <= 30000) =>
        /\ ret["pressure_broad_coefs"].kind = "return"
        /\ TabulatedOrLinear(pbc_te, pbc_a, ret["pressure_broad_coefs"].val[1])
        /\ TabulatedOrLinear(pbc_te, pbc_gammac, ret["pressure_broad_coefs"].val[2])
        /\ args.Te = 100 =>
               ret["pressure_broad_coefs"].val = <<Literal7(-99613006), Literal7(53077770)>>

\* Te = 100 on the path that evaluates the line at the upper end of [90, 100]
C8_Witness ==
    /\ args.Te = 100 /\ args.interp = "scipy"
    /\ ret["pressure_broad_coefs"] = Return(<<Literal7(-99613006), Literal7(53077770)>>)

(***************************************************************************)
(* SpecGrid: a directory holding up to MaxFiles grid files, and a caller   *)
(* that calls one of the loaders, itau, itau_h or mdn.                     *)
(***************************************************************************)
MaxFiles == 2

MaxDn == 6

GridFns == {"mdn", "load_bn", "load_bn_h", "load_betabn", "load_betabn_h", "itau", "itau_h"}

\* the keys '1d2', and 10 and 100 as format prints them
TeKeys == {<<"1", "d", "2">>}

NeKeys == {<<"1", "0">>, <<"1", "0", "0">>}

\* the line of an atom ("C", "H") with the separation dn >= 1, 'RRL_CIalpha',
\* and its suffix, 'alpha'
LineOf(atom, dn) == <<IF atom = "C" THEN "RRL_C" ELSE "RRL_H", "I", Greek[dn]>>

SuffixOf(dn) == <<Greek[dn]>>

\* the grid files there are: carbon and hydrogen bn grids, the hydrogen one
\* for both densities, and bn*beta grids of the alpha lines
GridFiles ==
    {LOCALDIR \o <<"/">> \o load_bn_model_file(<<"1", "d", "2">>, <<"1", "0">>, <<>>, <<"1.5d3">>),
     LOCALDIR \o <<"/", "H_bn2", "/", "Hydrogen_opt_T_", "1", "d", "2", "_ne_", "1", "0",
                   "_ncrit_8d2">> \o GridTail,
     LOCALDIR \o <<"/", "H_bn2", "/", "Hydrogen_opt_T_", "1", "d", "2", "_ne_", "1", "0", "0",
                   "_ncrit_8d2">> \o GridTail,
     LOCALDIR \o <<"/">> \o load_betabn_model_file(<<"Carbon">>, <<"1.5d3">>,
                                                   <<"1", "d", "2">>, <<"1", "0">>, <<>>),
     LOCALDIR \o <<"/">> \o load_betabn_model_file(<<"Hydrogen">>, <<"8d2">>,
                                                   <<"1", "d", "2">>, <<"1", "0">>, <<>>),
     LOCALDIR \o <<"/">> \o load_betabn_h_model_file(<<"1", "d", "2">>, <<"1", "0">>, <<>>,
                                                     <<"alpha">>)}

\* the orders in which a directory holding the files S can be listed
Listings(S) ==
    {l \in [1..Cardinality(S) -> S] : \A i, j \in 1..Cardinality(S) : l[i] = l[j] => i = j}

GridInit ==
    /\ args \in [te : TeKeys, ne : NeKeys, atom : {"C", "H"}, dn : 0..MaxDn,
                 n_min : {2}, n_max : {4}, other : {<<>>}, value : {"itau"}]
    /\ ret = [f \in GridFns |-> NoRet]
    /\ disk \in {S \in SUBSET GridFiles : Cardinality(S) <= MaxFiles}
    /\ reads = <<>>

\* the call f ends with the outcome out
Ends(f, out) ==
    /\ \A g \in GridFns : ret[g] = NoRet
    /\ ret' = [ret EXCEPT ![f] = out.ret]
    /\ reads' = reads \o out.reads
    /\ UNCHANGED <<args, disk>>

Call_mdn == Ends("mdn", Outcome(mdn(args.dn), <<>>))

Call_load_bn ==
    \E listing \in Listings(disk) :
        Ends("load_bn", load_bn(args.te, args.ne, args.other, <<"1.5d3">>, args.n_min,
                                args.n_max, LOCALDIR, listing))

Call_load_bn_h ==
    \E listing \in Listings(disk) :
        Ends("load_bn_h", load_bn_h(args.te, args.ne, args.other, args.n_min, args.n_max,
                                    listing))

Call_load_betabn ==
    /\ args.dn >= 1
    /\ \E listing \in Listings(disk) :
           Ends("load_betabn", load_betabn(args.te, args.ne, args.other,
                                           LineOf(args.atom, args.dn), LOCALDIR, listing))

Call_load_betabn_h ==
    /\ args.dn >= 1
    /\ \E listing \in Listings(disk) :
           Ends("load_betabn_h", load_betabn_h(args.te, args.ne, args.other,
                                               SuffixOf(args.dn), listing))

Call_itau ==
    /\ args.dn >= 1
    /\ \E listing \in Listings(disk) :
           Ends("itau", itau(args.te, args.ne, LineOf(args.atom, args.dn), args.n_min,
                             args.n_max, args.other, args.value, LOCALDIR, listing))

Call_itau_h ==
    /\ args.dn >= 1
    /\ \E listing \in Listings(disk) :
           Ends("itau_h", itau_h(args.te, args.ne, SuffixOf(args.dn), args.n_max, args.other,
                                 args.value, listing))

GridNext ==
    \/ Call_mdn
    \/ Call_load_bn
    \/ Call_load_bn_h
    \/ Call_load_betabn
    \/ Call_load_betabn_h
    \/ Call_itau
    \/ Call_itau_h

SpecGrid == GridInit /\ [][GridNext]_vars

\* C9: mdn returns 0.1908, 0.02633, 0.008106, 0.003492, 0.001812 for dn = 1,
\* ..., 5 and raises, returning nothing, for every other dn; itau and itau_h
\* called for a line whose dn is outside 1..5 raise and have read no grid.
C9_MdnTableAndDomain ==
    /\ ret["mdn"] # NoRet =>
        /\ args.dn = 1 => ret["mdn"] = Return(PyLiteral(1908, -4))
        /\ args.dn = 2 => ret["mdn"] = Return(PyLiteral(2633, -5))
        /\ args.dn = 3 => ret["mdn"] = Return(PyLiteral(8106, -6))
        /\ args.dn = 4 => ret["mdn"] = Return(PyLiteral(3492, -6))
        /\ args.dn = 5 => ret["mdn"] = Return(PyLiteral(1812, -6))
        /\ args.dn \notin 1..5 => ret["mdn"].kind = "raise"
    /\ \A f \in {"itau", "itau_h"} :
           (ret[f] # NoRet /\ args.dn \notin 1..5) =>
               ret[f].kind = "raise" /\ reads = <<>>

\* itau for a zeta line, its grid on disk: an error and nothing read
C9_Witness ==
    /\ args.dn = 6 /\ args.atom = "C" /\ args.ne = <<"1", "0">>
    /\ \E f \in disk : GlobMatch(LOCALDIR \o <<"/", "Carbon", "*">> \o BetaTail, f)
    /\ ret["itau"] = Raise("UnboundLocalError")
    /\ reads = <<>>

\* the files of the directory that the loader f looks up with the keys of
\* the call
Matches(f) ==
    {p \in disk :
        GlobMatch(CASE f = "load_bn" ->
                         LOCALDIR \o <<"/">> \o load_bn_model_file(args.te, args.ne, args.other,
                                                                   <<"1.5d3">>)
                    [] f = "load_bn_h" -> load_bn_h_pattern(args.te, args.ne, args.other)
                    [] f = "load_betabn" ->
                         LOCALDIR \o <<"/">> \o load_betabn_model_file(
                             IF args.atom = "C" THEN <<"Carbon">> ELSE <<"Hydrogen">>,
                             IF args.atom = "C" THEN <<"1.5d3">> ELSE <<"8d2">>,
                             args.te, args.ne, args.other)
                    [] f = "load_betabn_h" ->
                         LOCALDIR \o <<"/">> \o load_betabn_h_model_file(
                             args.te, args.ne, args.other, SuffixOf(args.dn)),
                  p)}

\* C10: a grid loader raises when no file matches the keys and when more than
\* one file matches them; it loads a file only when exactly one matches.
C10_AmbiguousMatchFails ==
    \A f \in {"load_bn", "load_bn_h", "load_betabn", "load_betabn_h"} :
        (ret[f] # NoRet /\ Cardinality(Matches(f)) # 1) =>
            ret[f].kind = "raise" /\ reads = <<>>

(***************************************************************************)
(* SpecBatch: a directory of carbon grids and a caller that hands a        *)
(* dictionary of up to MaxBatch models to one of the batch loaders.        *)
(***************************************************************************)
MaxBatch == 2

BatchFns == {"load_bn_dict", "load_itau_dict"}

\* the dictionaries of k models
Dicts(k) == [Te : [1..k -> TeKeys], ne : [1..k -> NeKeys], Tr : [1..k -> {<<>>}]]

\* the grid that the batch loader f looks up for model i of the dictionary
BatchPath(f, i) ==
    IF f = "load_bn_dict"
    THEN LOCALDIR \o <<"/">> \o load_bn_model_file(args.dict.Te[i], args.dict.ne[i],
                                                   args.dict.Tr[i], <<"1.5d3">>)
    ELSE LOCALDIR \o <<"/">> \o load_betabn_model_file(<<"Carbon">>, <<"1.5d3">>,
                                                       args.dict.Te[i], args.dict.ne[i],
                                                       args.dict.Tr[i])

BatchFiles ==
    UNION {{LOCALDIR \o <<"/">> \o load_bn_model_file(te, ne, <<>>, <<"1.5d3">>),
            LOCALDIR \o <<"/">> \o load_betabn_model_file(<<"Carbon">>, <<"1.5d3">>, te, ne,
                                                          <<>>)} :
               te \in TeKeys, ne \in NeKeys}

BatchInit ==
    /\ args \in [dict : UNION {Dicts(k) : k \in 0..MaxBatch}, n_min : {2}, n_max : {4},
                 value : {"itau"}]
    /\ ret = [f \in BatchFns |-> NoRet]
    /\ disk \in SUBSET BatchFiles
    /\ reads = <<>>

\* the batch call f ends with the outcome out
BatchEnds(f, out) ==
    /\ \A g \in DOMAIN ret : ret[g] = NoRet
    /\ ret' = [ret EXCEPT ![f] = out.ret]
    /\ reads' = reads \o out.reads
    /\ UNCHANGED <<args, disk>>

Call_load_bn_dict ==
    \E listing \in Listings(disk) :
        BatchEnds("load_bn_dict",
                  load_bn_dict(args.dict, args.n_min, args.n_max, LOCALDIR, <<"1.5d3">>,
                               listing))

Call_load_itau_dict ==
    \E listing \in Listings(disk) :
        BatchEnds("load_itau_dict",
                  load_itau_dict(args.dict, LineOf("C", 1), args.n_min, args.n_max,
                                 args.value, LOCALDIR, listing))

BatchNext == Call_load_bn_dict \/ Call_load_itau_dict

SpecBatch == BatchInit /\ [][BatchNext]_vars

\* the models of the dictionary whose grid is not in the directory
BatchMissing(f) == {i \in 1..Len(args.dict.Te) : BatchPath(f, i) \notin disk}

\* the first of them
BatchFirstMissing(f) == CHOOSE i \in BatchMissing(f) : \A j \in BatchMissing(f) : i <= j

\* C11: when the grid of one model of the dictionary cannot be loaded, the
\* batch loader ends with an error, returns no array, and has read the
\* grids of the models before the failed one and of no later model.
C11_BatchFailsFast ==
    \A f \in BatchFns :
        (ret[f] # NoRet /\ BatchMissing(f) # {}) =>
            /\ ret[f].kind = "raise"
            /\ reads = [j \in 1..(BatchFirstMissing(f) - 1) |-> BatchPath(f, j)]

\* two models, the grid of the first is missing: the grid of the second,
\* which is in the directory, was not read
C11_Witness ==
    /\ Len(args.dict.Te) = 2
    /\ BatchMissing("load_bn_dict") = {1}
    /\ ret["load_bn_dict"].kind = "raise"
    /\ reads = <<>>

\* C12: the error of a batch loader names the model (Te, ne, Tr) that failed.
C12_ErrorNamesTriple ==
    \A f \in BatchFns :
        (ret[f] # NoRet /\ BatchMissing(f) # {}) =>
            /\ ret[f].kind = "raise"
            /\ "triple" \in DOMAIN ret[f]
            /\ ret[f].triple = <<args.dict.Te[BatchFirstMissing(f)],
                                 args.dict.ne[BatchFirstMissing(f)],
                                 args.dict.Tr[BatchFirstMissing(f)]>>

\* C13: slice i of the array that a batch loader returns holds the grid of
\* model i of the dictionary: every row of it is a row of that model's file.
C13_BatchKeepsOrder ==
    /\ ret["load_bn_dict"].kind = "return" =>
        /\ Len(ret["load_bn_dict"].val) = Len(args.dict.Te)
        /\ \A i \in 1..Len(args.dict.Te) :
               \A j \in 1..Len(ret["load_bn_dict"].val[i]) :
                   ret["load_bn_dict"].val[i][j].file = BatchPath("load_bn_dict", i)
    /\ ret["load_itau_dict"].kind = "return" =>
        /\ Len(ret["load_itau_dict"].val) = Len(args.dict.Te)
        /\ \A i \in 1..Len(args.dict.Te) :
               \A j \in 1..Len(ret["load_itau_dict"].val[i][2]) :
                   ret["load_itau_dict"].val[i][2][j].b.file = BatchPath("load_itau_dict", i)

\* two models of different density, both grids loaded
C13_Witness ==
    /\ Len(args.dict.Te) = 2
    /\ args.dict.ne[1] # args.dict.ne[2]
    /\ ret["load_itau_dict"].kind = "return"
    /\ Len(ret["load_itau_dict"].val[2][2]) = 2
    /\ reads = <<BatchPath("load_itau_dict", 1), BatchPath("load_itau_dict", 2)>>

(***************************************************************************)
(* SpecSlice: the carbon grids of one model are in the directory, and a    *)
(* caller asks load_bn or itau for the levels n_min to n_max.              *)
(***************************************************************************)
MaxLevel == 6

SliceFiles ==
    {LOCALDIR \o <<"/">> \o load_bn_model_file(<<"1", "d", "2">>, <<"1", "0">>, <<>>, <<"1.5d3">>),
     LOCALDIR \o <<"/">> \o load_betabn_model_file(<<"Carbon">>, <<"1.5d3">>,
                                                   <<"1", "d", "2">>, <<"1", "0">>, <<>>)}

SliceInit ==
    /\ args \in [te : TeKeys, ne : {<<"1", "0">>}, atom : {"C"}, dn : {1},
                 n_min : 0..MaxLevel, n_max : 0..MaxLevel, other : {<<>>},
                 value : {"itau", "bbnMdn", "None"}]
    /\ ret = [f \in GridFns |-> NoRet]
    /\ disk = SliceFiles
    /\ reads = <<>>

SliceNext == Call_load_bn \/ Call_itau

SpecSlice == SliceInit /\ [][SliceNext]_vars

\* the levels n of the rows
Levels(rows) == [i \in 1..Len(rows) |-> rows[i].n]

\* the levels from lo through hi
LevelsThrough(lo, hi) == [i \in 1..(hi - lo + 1) |-> lo + i - 1]

\* C14: load_bn returns the rows of the grid from the best match of n_min
\* through the best match of n_max, that row included, in increasing n; when
\* the grid holds every n of [n_min, n_max] these are n_max - n_min + 1 rows.
C14_RowsThroughNmax ==
    ret["load_bn"] # NoRet =>
        /\ ret["load_bn"].kind = "return"
        /\ Levels(ret["load_bn"].val) =
               LevelsThrough(Max(1, Min(GridRows, args.n_min)),
                             Max(1, Min(GridRows, args.n_max)))
        /\ (1 <= args.n_min /\ args.n_min <= args.n_max /\ args.n_max <= GridRows) =>
               Len(ret["load_bn"].val) = args.n_max - args.n_min + 1

\* the levels 2 to 4 of a grid of five
C14_Witness ==
    /\ args.n_min = 2 /\ args.n_max = 4
    /\ ret["load_bn"].kind = "return"
    /\ Levels(ret["load_bn"].val) = <<2, 3, 4>>

\* C15: itau puts out every tabulated n from n_min through n_max, the row
\* that best matches n_max included.
C15_ItauThroughNmax ==
    ret["itau"] # NoRet =>
        /\ ret["itau"].kind = "return"
        /\ ret["itau"].val[1] =
               LevelsThrough(Max(1, Min(GridRows, args.n_min)),
                             Max(1, Min(GridRows, args.n_max)))
        /\ Len(ret["itau"].val[2]) = Len(ret["itau"].val[1])

(***************************************************************************)
(* SpecOpacity: a caller evaluates the optical depths, the free-free       *)
(* opacity and eta, each at most once, for one set of conditions.          *)
(***************************************************************************)
MaxNuExp == 1

MaxTeExp == 4

MaxEm == 2

OpacityFns == {"itau_norad", "itau_lte", "kappa_cont", "eta"}

OpacityInit ==
    /\ args \in [n : {100}, Te : 1..MaxTeExp, dn : 1..2, b : 1..2, em : 0..MaxEm,
                 freq : UNION {[1..k -> (-MaxNuExp)..MaxNuExp] : k \in 0..2},
                 trans : {"RRL_CIalpha"}]
    /\ ret = [f \in OpacityFns |-> NoRet]
    /\ disk = {}
    /\ reads = <<>>

\* the call of f, made once, ends with out
OpacityEnds(f, out) ==
    /\ ret[f] = NoRet
    /\ ret' = [ret EXCEPT ![f] = out]
    /\ UNCHANGED <<args, disk, reads>>

Call_itau_norad ==
    OpacityEnds("itau_norad",
                Return(itau_norad(args.n, 10^args.Te, args.b, args.dn, mdn(args.dn).val)))

Call_itau_lte ==
    OpacityEnds("itau_lte",
                Return(itau_lte(args.n, 10^args.Te, args.dn, mdn(args.dn).val, args.em)))

Call_kappa_cont == OpacityEnds("kappa_cont", kappa_cont(args.freq, args.Te))

Call_eta == OpacityEnds("eta", eta(args.freq, args.Te, args.trans))

OpacityNext ==
    \/ Call_itau_norad
    \/ Call_itau_lte
    \/ Call_kappa_cont
    \/ Call_eta

SpecOpacity == OpacityInit /\ [][OpacityNext]_vars

\* C18: itau_lte(n, Te, dn, M, em) equals em times itau_norad(n, Te, b=1, dn,
\* M), sign included.
C18_LteIsEmTimesNorad ==
    (ret["itau_lte"] # NoRet /\ ret["itau_norad"] # NoRet /\ args.b = 1) =>
        /\ ret["itau_lte"].val.n = ret["itau_norad"].val.n
        /\ ret["itau_lte"].val.Te = ret["itau_norad"].val.Te
        /\ ItauCoef(ret["itau_lte"].val) =
               ItauTimes(args.em, ItauCoef(ret["itau_norad"].val))

\* C19: every element of the result of kappa_cont holds the formula of one
\* regime, that of -1.232644*v + 0.098747 when v <= -0.25 and that of
\* -1.084191*v + 0.135860 when v > -0.25; no element keeps its initial 0 and
\* none is written by both regimes.
C19_EveryFrequencyInOneRegime ==
    ret["kappa_cont"] # NoRet =>
        /\ ret["kappa_cont"].kind = "return"
        /\ \A i \in 1..Len(args.freq) :
               LET v == kappa_cont_v(args.freq[i], args.Te)
               IN  /\ ret["kappa_cont"].val.kc[i] # [expr |-> "0"]
                   /\ v <= -25000 =>
                          ret["kappa_cont"].val.kc[i] =
                              kappa_cont_regime(-1232644, 98747, args.freq[i], args.Te, v)
                   /\ v > -25000 =>
                          ret["kappa_cont"].val.kc[i] =
                              kappa_cont_regime(-1084191, 135860, args.freq[i], args.Te, v)
                   /\ ~(kappa_cont_mask_2(v) /\ kappa_cont_mask_3(v))

\* C20: eta completes and returns (kc + kl*b_i)/(kc + kl*b_f*b_fi) with kc the
\* result of kappa_cont for the same frequency and conditions.
C20_EtaReturnsCorrection ==
    ret["eta"] # NoRet =>
        /\ ret["eta"].kind = "return"
        /\ ret["eta"].val.kc = kappa_cont(args.freq, args.Te).val

(***************************************************************************)
(* SpecProfile: gaussian and voigt evaluated, each at most once, at x for  *)
(* one center, width and amplitude; gamma is 1e-8.                         *)
(***************************************************************************)
MaxSigma == 3

MaxAmp == 2

ProfileFns == {"gaussian", "voigt"}

\* sigma = m * 10^-e
ProfileInit ==
    /\ args \in [x : 0..1, center : {1}, sigma : [m : 1..MaxSigma, e : {0, 3}],
                 amplitude : (-1)..MaxAmp]
    /\ ret = [f \in ProfileFns |-> NoRet]
    /\ disk = {}
    /\ reads = <<>>

ProfileSigma == PyRound[ZInt[args.sigma.m], NPow10[args.sigma.e]]

ProfileEnds(f, out) ==
    /\ ret[f] = NoRet
    /\ ret' = [ret EXCEPT ![f] = out]
    /\ UNCHANGED <<args, disk, reads>>

Call_gaussian ==
    ProfileEnds("gaussian", Return(CallOn("gaussian", args, NoRet)))

Call_voigt ==
    ProfileEnds("voigt", Return(CallOn("voigt", args, NoRet)))

ProfileNext == Call_gaussian \/ Call_voigt

SpecProfile == ProfileInit /\ [][ProfileNext]_vars

\* the two ends of the value k*w that voigt returned at the center
VoigtEnds ==
    {RatTimes(ret["voigt"].val.k, ret["voigt"].val.w.lo),
     RatTimes(ret["voigt"].val.k, ret["voigt"].val.w.hi)}

\* sqrt(ln 2 / pi) = 0.4697186393... lies between these two fractions
PeakFactor ==
    {[num |-> ZInt[46971863], den |-> NPow10[8]],
     [num |-> ZInt[46971865], den |-> NPow10[8]]}

\* C16 (as stated): at x = center and gamma = 1e-8, voigt(x, sigma, gamma,
\* center, A) and gaussian(x, sigma, center, A) agree within 1e-4 relative
\* error: some value that voigt may have returned is that close to the value
\* of gaussian.
C16_VoigtIsGaussianAtCenter ==
    (ret["gaussian"] # NoRet /\ ret["voigt"] # NoRet /\ args.x = args.center) =>
        LET g == RatOf(ret["gaussian"].val)
        IN  \/ \E v \in VoigtEnds : RatWithin(v, g)
            \/ \E v1, v2 \in VoigtEnds : RatCmp(v1, g) < 0 /\ RatCmp(g, v2) < 0

\* C16 (amended): at x = center and gamma = 1e-8, voigt(x, sigma, gamma,
\* center, A) is within 1e-4 relative error of A*sqrt(ln 2/pi)/sigma, the
\* peak of a Gaussian of area A and half width at half maximum sigma, for
\* sigma >= 1e-3.
C16_VoigtPeakAtCenter ==
    (ret["voigt"] # NoRet /\ args.x = args.center) =>
        \A v \in VoigtEnds : \A c \in PeakFactor :
            RatWithin(v, PeakOf(PyOfInt[args.amplitude], c, ProfileSigma))

\* sigma = 1, A = 1: gaussian returned 1 and voigt a value next to 0.4697
C16_Witness ==
    /\ args.x = args.center /\ args.sigma = [m |-> 1, e |-> 0] /\ args.amplitude = 1
    /\ ret["gaussian"] = Return(PyOfInt[1])
    /\ ret["voigt"] # NoRet
    /\ \A v \in VoigtEnds : \A c \in PeakFactor : RatWithin(v, c)

(***************************************************************************)
(* SpecDoppler: doppler_broad for a temperature, a mass and a turbulent    *)
(* velocity, then doppler_temp on the width it returned.                   *)
(***************************************************************************)
MaxTemp == 3

MaxMass == 2

MaxVrms == 2

DopplerFns == {"doppler_broad", "doppler_temp"}

DopplerInit ==
    /\ args \in [t : 0..MaxTemp, m : 1..MaxMass, vrms : 0..MaxVrms, fwhm : BOOLEAN]
    /\ ret = [f \in DopplerFns |-> NoRet]
    /\ disk = {}
    /\ reads = <<>>

Call_doppler_broad ==
    /\ ret["doppler_broad"] = NoRet
    /\ ret' = [ret EXCEPT !["doppler_broad"] =
                   Return(CallOn("doppler_broad", args, NoRet))]
    /\ UNCHANGED <<args, disk, reads>>

\* doppler_temp(doppler_broad(t, m, vrms, fwhm), m, vrms, fwhm)
Call_doppler_temp ==
    /\ ret["doppler_broad"] # NoRet
    /\ ret["doppler_temp"] = NoRet
    /\ ret' = [ret EXCEPT !["doppler_temp"] =
                   Return(CallOn("doppler_temp", args, ret["doppler_broad"].val))]
    /\ UNCHANGED <<args, disk, reads>>

DopplerNext == Call_doppler_broad \/ Call_doppler_temp

SpecDoppler == DopplerInit /\ [][DopplerNext]_vars

\* C17 (as stated): doppler_temp(doppler_broad(T, m, vrms, fwhm), m, vrms,
\* fwhm) == T.
C17_RoundTripIsExact ==
    ret["doppler_temp"] # NoRet => ret["doppler_temp"].val = PyOfInt[args.t]

\* C17 (amended): doppler_temp(doppler_broad(T, m, vrms, fwhm), m, vrms,
\* fwhm) is T up to the rounding of the float operations: it differs from T
\* by at most 2^-49 * (T + m*vrms^2/8314.46262103).
C17_RoundTripWithinRounding ==
    ret["doppler_temp"] # NoRet =>
        DopplerWithin(ret["doppler_temp"].val, args.t, args.m, args.vrms)

\* T = 1, m = 1, vrms = 1: the round trip ends next to 1, not on it
C17_Witness ==
    /\ args = [t |-> 1, m |-> 1, vrms |-> 1, fwhm |-> FALSE]
    /\ ret["doppler_temp"] # NoRet
    /\ ret["doppler_temp"].val # PyOfInt[1]
    /\ DopplerWithin(ret["doppler_temp"].val, 1, 1, 1)

(***************************************************************************)
(* Claims about the discriminant and the propagated uncertainty of         *)
(* dv_minus_doppler / dv_minus_doppler2 (SpecWidth).                       *)
(***************************************************************************)
\* C25 (as claimed): with dD != 0 and the other inputs fixed, calling either
\* implementation with a different ddD returns a different ddL.
C25_UncertaintyDependsOnDdD ==
    LET dV == SInt[args.dV]
        ddV == SInt[args.ddV]
        dD == SInt[args.dD]
    IN  (WidthBothPairs /\ args.dD # 0) =>
            \A e \in (0..MaxErr) \ {args.ddD} :
                /\ dv_minus_doppler(dV, ddV, dD, SInt[e]).val.ddL # WidthRet1.val.ddL
                /\ dv_minus_doppler2(dV, ddV, dD, SInt[e]).val.ddL # WidthRet2.val.ddL

\* C27: for every (dV, dD) the discriminant of dv_minus_doppler is
\* 4*(b*dV^2 + (a^2 - b)*dD^2) and that of dv_minus_doppler2 is
\* b*dV^2 + (a^2 - b)*dD^2, neither is negative, and each function returns a
\* (dL, ddL) pair, never the scalar 0 of the 'No real solutions' branch.
C27_DiscriminantNonNegative ==
    LET dV == SInt[args.dV]
        dD == SInt[args.dD]
        q == SAdd[SMul[dmd_b, SSq[dV]], SMul[dmd2_den, SSq[dD]]]
    IN  /\ WidthRet1 # NoRet =>
             /\ SEq[dmd_d(dV, dD), SMul[SInt[4], q]]
             /\ ~SLess[dmd_d(dV, dD), SZero]
             /\ WidthRet1.val.shape = "pair"
        /\ WidthRet2 # NoRet =>
             /\ SEq[dmd2_d(dV, dD), q]
             /\ ~SLess[dmd2_d(dV, dD), SZero]
             /\ WidthRet2.val.shape = "pair"

\* the case where dD^2 - dV^2 changes sign: a Doppler width above the total
C27_Witness ==
    /\ WidthBothPairs
    /\ args.dD > args.dV
    /\ SLess[SZero, dmd_d(SInt[args.dV], SInt[args.dD])]

(***************************************************************************)
(* SpecFwhm: a caller holding the Doppler and Lorentz widths (dD, dL) and  *)
(* one uncertainty unc for both (ddD = ddL = unc) calls voigt_fwhm and      *)
(* voigt_fwhm_err, and passes the total width voigt_fwhm returned to       *)
(* dv_minus_doppler and dv_minus_doppler2, with ddV = 1.                   *)
(***************************************************************************)
MaxDoppler == 2

MaxLorentz == 2

\* the doubles lo, lo + 1, ..., hi of the table t
Doubles(t, lo, hi) == {t[k] : k \in lo..hi}

FwhmFns == {"voigt_fwhm", "voigt_fwhm_err", "dv_minus_doppler", "dv_minus_doppler2"}

FwhmInit ==
    /\ \E t \in {PyOfInt} :
           args \in [dD : Doubles(t, 0, MaxDoppler),
                     dL : Doubles(t, 0, MaxLorentz),
                     unc : Doubles(t, 0, 1), ddV : Doubles(t, 1, 1)]
    /\ ret = [f \in FwhmFns |-> NoRet]
    /\ disk = {}
    /\ reads = <<>>

Call_voigt_fwhm ==
    /\ ret["voigt_fwhm"] = NoRet
    /\ ret' = [ret EXCEPT !["voigt_fwhm"] =
                   Return(voigt_fwhm(args.dD, args.dL))]
    /\ UNCHANGED <<args, disk, reads>>

Call_voigt_fwhm_err ==
    /\ ret["voigt_fwhm_err"] = NoRet
    /\ ret' = [ret EXCEPT !["voigt_fwhm_err"] =
                   Return(voigt_fwhm_err(args.dD, args.dL,
                                         args.unc, args.unc))]
    /\ UNCHANGED <<args, disk, reads>>

\* dv_minus_doppler(voigt_fwhm(dD, dL), 1, dD, ddD)
Call_dv_minus_doppler_np ==
    /\ ret["voigt_fwhm"] # NoRet
    /\ ret["dv_minus_doppler"] = NoRet
    /\ ret' = [ret EXCEPT !["dv_minus_doppler"] =
                   dv_minus_doppler_np(ret["voigt_fwhm"].val, args.ddV,
                                       args.dD, args.unc)]
    /\ UNCHANGED <<args, disk, reads>>

\* dv_minus_doppler2(voigt_fwhm(dD, dL), 1, dD, ddD)
Call_dv_minus_doppler2_np ==
    /\ ret["voigt_fwhm"] # NoRet
    /\ ret["dv_minus_doppler2"] = NoRet
    /\ ret' = [ret EXCEPT !["dv_minus_doppler2"] =
                   dv_minus_doppler2_np(ret["voigt_fwhm"].val, args.ddV,
                                        args.dD, args.unc)]
    /\ UNCHANGED <<args, disk, reads>>

FwhmNext ==
    \/ Call_voigt_fwhm
    \/ Call_voigt_fwhm_err
    \/ Call_dv_minus_doppler_np
    \/ Call_dv_minus_doppler2_np

SpecFwhm == FwhmInit /\ [][FwhmNext]_vars

FwhmInverted == ret["dv_minus_doppler"] # NoRet /\ ret["dv_minus_doppler2"] # NoRet

\* C24 (as stated): the Lorentz width dv_minus_doppler and dv_minus_doppler2
\* return for dV = voigt_fwhm(dD, dL) is the double dL.
C24_InverseIsExact ==
    FwhmInverted =>
        /\ ret["dv_minus_doppler"].val.dL = args.dL
        /\ ret["dv_minus_doppler2"].val.dL = args.dL

\* C24 (amended): both functions return a pair whose Lorentz width differs
\* from dL by at most 10^-13 times dV = voigt_fwhm(dD, dL).
C24_InverseWithinRounding ==
    FwhmInverted =>
        /\ ret["dv_minus_doppler"].val.shape = "pair"
        /\ ret["dv_minus_doppler2"].val.shape = "pair"
        /\ PyWithin(ret["dv_minus_doppler"].val.dL, args.dL,
                    ret["voigt_fwhm"].val, 13)
        /\ PyWithin(ret["dv_minus_doppler2"].val.dL, args.dL,
                    ret["voigt_fwhm"].val, 13)

\* both widths positive: both inverses end next to dL, not on it
C24_Witness ==
    /\ FwhmInverted
    /\ args.dD.M # <<>> /\ args.dL.M # <<>>
    /\ ret["dv_minus_doppler"].val.dL # args.dL
    /\ ret["dv_minus_doppler2"].val.dL # args.dL
    /\ PyWithin(ret["dv_minus_doppler"].val.dL, args.dL, ret["voigt_fwhm"].val, 13)

\* C22 (as claimed): with ddD = 0 and ddL = 0, and dD and dL not both zero,
\* voigt_fwhm_err returns 0.0002*voigt_fwhm(dD, dL), here within 10^-6 of it
\* relative to the width.
C22_OnlySystematicError ==
    (/\ ret["voigt_fwhm_err"] # NoRet
     /\ ret["voigt_fwhm"] # NoRet
     /\ (args.dD.M # <<>> \/ args.dL.M # <<>>)
     /\ args.unc.M = <<>>) =>
        /\ ret["voigt_fwhm_err"].val # np_nan
        /\ PyWithin(ret["voigt_fwhm_err"].val,
                    PyMul[voigt_fwhm_f, ret["voigt_fwhm"].val],
                    ret["voigt_fwhm"].val, 6)

(***************************************************************************)
(* SpecArea: a caller holding (amp, fwhm, gamma, sigma) and one            *)
(* uncertainty unc for both damp and dfwhm calls voigt_area and passes the *)
(* area it returned to voigt_area_err.                                     *)
(***************************************************************************)
MaxPeak == 1

MaxFwhm == 1

MaxGamma == 1

MaxGauss == 1

AreaFns == {"voigt_area", "voigt_area_err"}

AreaInit ==
    /\ \E t \in {PyOfInt} :
           args \in [amp : Doubles(t, -1, MaxPeak),
                     fwhm : Doubles(t, 0, MaxFwhm),
                     gamma : Doubles(t, 0, MaxGamma),
                     sigma : Doubles(t, 0, MaxGauss),
                     unc : Doubles(t, 0, 1)]
    /\ ret = [f \in AreaFns |-> NoRet]
    /\ disk = {}
    /\ reads = <<>>

Call_voigt_area ==
    /\ ret["voigt_area"] = NoRet
    /\ ret' = [ret EXCEPT !["voigt_area"] =
                   Return(voigt_area(args.amp, args.fwhm,
                                     args.gamma, args.sigma))]
    /\ UNCHANGED <<args, disk, reads>>

\* voigt_area_err(voigt_area(amp, fwhm, gamma, sigma), amp, unc, fwhm, unc,
\* gamma, sigma)
Call_voigt_area_err ==
    /\ ret["voigt_area"] # NoRet
    /\ ret["voigt_area_err"] = NoRet
    /\ ret' = [ret EXCEPT !["voigt_area_err"] =
                   Return(voigt_area_err(ret["voigt_area"].val,
                                         args.amp, args.unc,
                                         args.fwhm, args.unc,
                                         args.gamma, args.sigma))]
    /\ UNCHANGED <<args, disk, reads>>

AreaNext == Call_voigt_area \/ Call_voigt_area_err

SpecArea == AreaInit /\ [][AreaNext]_vars

\* C21 (as claimed): with damp = 0 and dfwhm = 0, and amp and fwhm not zero,
\* voigt_area_err returns 0.005*|area| whatever c is, here within 10^-9 of it
\* relative to the area.
C21_HalfPercentOfArea ==
    (/\ ret["voigt_area_err"] # NoRet
     /\ ret["voigt_area"].val # np_nan
     /\ args.amp.M # <<>> /\ args.fwhm.M # <<>>
     /\ args.unc.M = <<>>) =>
        /\ ret["voigt_area_err"].val # np_nan
        /\ PyWithin(ret["voigt_area_err"].val,
                    np_half_percent(ret["voigt_area"].val),
                    ret["voigt_area"].val, 9)

(***************************************************************************)
(* average (crrls.py).  A two-dimensional array is its shape <<r, c>> and  *)
(* its entries at[<<i, j>>], i in 1..r, j in 1..c.  avg_tmp/n is a true    *)
(* division (from __future__ import division): an entry of the result is   *)
(* the double nearest to num/den, kept as the fraction.                    *)
(***************************************************************************)
np_array(r, c, at) == [shape |-> <<r, c>>, at |-> at]

\* np.swapaxes(a, 0, axis) for axis 0 or 1
np_swapaxes(a, axis) ==
    IF axis = 0 THEN a
    ELSE np_array(a.shape[2], a.shape[1],
                  [p \in (1..a.shape[2]) \X (1..a.shape[1]) |-> a.at[<<p[2], p[1]>>]])

\* the indices, from 0, of s[start:stop:step] for a sequence of L entries,
\* start >= 0 and step >= 1; a negative stop counts from the end
py_slice_indices(L, start, stop, step) ==
    LET hi == IF stop < 0 THEN Max(L + stop, 0) ELSE Min(stop, L)
        lo == Min(start, L)
        cnt == IF hi > lo THEN (hi - lo + step - 1) \div step ELSE 0
    IN  [k \in 1..cnt |-> lo + (k - 1) * step]

\* a[idx] along axis 0
np_take(a, idx) ==
    np_array(Len(idx), a.shape[2],
             [p \in (1..Len(idx)) \X (1..a.shape[2]) |-> a.at[<<idx[p[1]] + 1, p[2]>>]])

\* the slice without its stop: swpdata[i::n] for every i
average_slice_open(swpdata, i, n) ==
    np_take(swpdata, py_slice_indices(swpdata.shape[1], i, swpdata.shape[1], n))

\* lines 58-62: swpdata[i::n] when si <= 0, swpdata[i:-si:n] otherwise
average_slice(swpdata, i, n) ==
    LET si == (n - 1) - i
        L == swpdata.shape[1]
    IN  IF si <= 0
        THEN np_take(swpdata, py_slice_indices(L, i, L, n))
        ELSE np_take(swpdata, py_slice_indices(L, i, -si, n))

\* avg_tmp = 0, and the ValueError of operands that cannot be broadcast
py_int_0 == [t |-> "int"]

np_shape_error == [t |-> "ValueError"]

\* avg_tmp += s: the first time avg_tmp is the int 0 and the sum is s; after
\* that s must have the rows of avg_tmp, or one row that is repeated
np_iadd(avg_tmp, s) ==
    IF avg_tmp = py_int_0 THEN s
    ELSE IF avg_tmp = np_shape_error THEN np_shape_error
    ELSE IF ~numpy_fits(s.shape[1], avg_tmp.shape[1]) THEN np_shape_error
    ELSE np_array(avg_tmp.shape[1], avg_tmp.shape[2],
                  [p \in DOMAIN avg_tmp.at |->
                      avg_tmp.at[p]
                      + s.at[<<IF s.shape[1] = 1 THEN 1 ELSE p[1], p[2]>>]])

\* the loop of lines 57-62, from iteration i on
RECURSIVE average_loop(_, _, _, _)
average_loop(swpdata, n, i, avg_tmp) ==
    IF i = n THEN avg_tmp
    ELSE average_loop(swpdata, n, i + 1, np_iadd(avg_tmp, average_slice(swpdata, i, n)))

\* avg_tmp/n
np_true_divide(a, n) ==
    np_array(a.shape[1], a.shape[2], [p \in DOMAIN a.at |-> [num |-> a.at[p], den |-> n]])

\* average(data, axis, n), lines 36-65
average(data, axis, n) ==
    LET swpdata == np_swapaxes(data, axis)
        total == average_loop(swpdata, n, 0, py_int_0)
    IN  IF n < 1 THEN Return(np_swapaxes(swpdata, axis))
        ELSE IF total = np_shape_error THEN Raise("ValueError")
        ELSE Return(np_swapaxes(np_true_divide(total, n), axis))

(***************************************************************************)
(* SpecAverage: average called on an array of L rows and two columns of    *)
(* zeros and ones, along either axis.                                      *)
(***************************************************************************)
MaxRows == 3

MaxFactor == 3

AverageInit ==
    /\ \E L \in 0..MaxRows :
           args \in [data : {np_array(L, 2, at) : at \in [(1..L) \X (1..2) -> 0..1]},
                     axis : 0..1, n : 0..MaxFactor]
    /\ ret = [f \in {"average"} |-> NoRet]
    /\ disk = {}
    /\ reads = <<>>

Call_average ==
    /\ ret["average"] = NoRet
    /\ ret' = [ret EXCEPT !["average"] = average(args.data, args.axis, args.n)]
    /\ UNCHANGED <<args, disk, reads>>

AverageNext == Call_average

SpecAverage == AverageInit /\ [][AverageNext]_vars

\* the entry of data at position k of the averaged axis and m of the other
AverageInput(k, m) ==
    IF args.axis = 0 THEN args.data.at[<<k, m>>] ELSE args.data.at[<<m, k>>]

\* the lengths of the averaged axis and of the other axis of an array
AverageLen(a) == a.shape[args.axis + 1]

AverageOther(a) == a.shape[2 - args.axis]

\* C23: for n >= 1 the result has floor(L/n) entries along the axis and the
\* entries of data along the other one, and entry j (from 0) is the sum of
\* the inputs j*n .. j*n + n - 1 divided by n; for n < 1 the result is data.
C23_AverageDecimates ==
    ret["average"] # NoRet =>
        /\ ret["average"].kind = "return"
        /\ IF args.n < 1 THEN ret["average"].val = args.data
           ELSE LET res == ret["average"].val
                IN  /\ AverageLen(res) = AverageLen(args.data) \div args.n
                    /\ AverageOther(res) = AverageOther(args.data)
                    /\ \A j \in 1..AverageLen(res), m \in 1..AverageOther(res) :
                           LET out == IF args.axis = 0 THEN res.at[<<j, m>>]
                                      ELSE res.at[<<m, j>>]
                           IN  /\ out.den = args.n
                               /\ out.num = SumOver([i \in 1..args.n |->
                                       AverageInput((j - 1) * args.n + i, m)])

\* three rows averaged in pairs along axis 0: one row out, the third dropped
C23_Witness ==
    /\ ret["average"] # NoRet
    /\ args.n = 2 /\ args.axis = 0 /\ args.data.shape = <<3, 2>>
    /\ args.data.at[<<1, 1>>] = 1 /\ args.data.at[<<2, 1>>] = 0
    /\ ret["average"].val.shape = <<1, 2>>
    /\ ret["average"].val.at[<<1, 1>>] = [num |-> 1, den |-> 2]


(***************************************************************************)
(* The loaders of rrlmod.py that walk a directory or a list of models, and *)
(* the callers of load_bn: one call of one of them for each behaviour, on  *)
(* a directory that holds some of the grids.  SpecLoaders calls the        *)
(* loaders that fill an array, SpecCallers the callers of load_bn.         *)
(***************************************************************************)
LoaderFns ==
    BatchFns \cup {"load_bn_all", "load_models", "kappa_line", "make_betabn", "make_betabn2"}

\* the densities of the models: '1', '10' and, in the form of str2val, '1d0'
LoaderNeKeys == {<<"1">>, <<"1", "0">>, <<"1", "d", "0">>}

LoaderTe == <<"1", "d", "2">>

\* the path of a bn*beta grid as load_itau_all finds it, in the directory
\* of its line
ModelPath(te, ne) ==
    LOCALDIR \o <<"/", "bbn2_CIalpha", "/">>
        \o load_betabn_model_file(<<"Carbon">>, <<"1.5d3">>, te, ne, <<>>)

\* the path of a bn grid in the directory bn2
Bn2Path(te, ne) ==
    LOCALDIR \o <<"/", "bn2", "/">> \o load_bn_model_file(te, ne, <<>>, <<"1.5d3">>)

LoaderFiles ==
    {Bn2Path(LoaderTe, <<"1", "0">>),
     LOCALDIR \o <<"/">> \o load_bn_model_file(LoaderTe, <<"1">>, <<>>, <<"1.5d3">>),
     LOCALDIR \o <<"/">> \o load_betabn_model_file(<<"Carbon">>, <<"1.5d3">>, LoaderTe,
                                                   <<"1">>, <<>>)}

LoaderInit ==
    /\ \E ne \in LoaderNeKeys, k \in 0..MaxBatch :
           args = [dict |-> [Te |-> [i \in 1..k |-> LoaderTe], ne |-> [i \in 1..k |-> ne],
                             Tr |-> [i \in 1..k |-> <<>>]],
                   models |-> [i \in 1..k |->
                                  ModelPath(LoaderTe, IF i = 1 /\ k > 1 THEN <<"1", "0">>
                                                      ELSE ne)],
                   temp |-> LoaderTe, dens |-> ne, Te |-> [m |-> 1, e |-> 2],
                   Tr |-> [m |-> 2, e |-> 3], n_min |-> 2, n_max |-> 4, n_all |-> GridRows,
                   value |-> "itau"]
    /\ ret = [f \in LoaderFns |-> NoRet]
    /\ disk \in SUBSET LoaderFiles
    /\ reads = <<>>

\* the call f ends with the outcome out
LoaderEnds(f, out) ==
    /\ \A g \in LoaderFns : ret[g] = NoRet
    /\ ret' = [ret EXCEPT ![f] = out.ret]
    /\ reads' = reads \o out.reads
    /\ UNCHANGED <<args, disk>>

Call_load_bn_all ==
    \E listing \in Listings(disk) :
        LoaderEnds("load_bn_all", load_bn_all(args.n_min, args.n_max, LOCALDIR, listing))

Call_load_models ==
    \E listing \in Listings(disk) :
        LoaderEnds("load_models",
                   load_models(args.models, LineOf("C", 1), args.n_all, args.value, listing))

Call_kappa_line ==
    LoaderEnds("kappa_line",
               Outcome(kappa_line(args.Te, args.dens, args.Tr, LineOf("C", 1), args.n_max),
                       <<>>))

Call_make_betabn ==
    LoaderEnds("make_betabn",
               Outcome(make_betabn(LineOf("C", 1), args.temp, args.dens, <<>>, TRUE), <<>>))

Call_make_betabn2 ==
    LoaderEnds("make_betabn2",
               Outcome(make_betabn(LineOf("C", 1), args.temp, args.dens, <<>>, FALSE), <<>>))

\* the loaders that fill an array with the rows of several grids
LoaderNext == Call_load_bn_dict \/ Call_load_itau_dict \/ Call_load_models

SpecLoaders == LoaderInit /\ [][LoaderNext]_vars

\* the functions of rrlmod.py that call load_bn
CallerNext ==
    \/ Call_load_bn_all
    \/ Call_load_bn_dict
    \/ Call_kappa_line
    \/ Call_make_betabn
    \/ Call_make_betabn2

SpecCallers == LoaderInit /\ [][CallerNext]_vars

\* the grids that the loader f looks up are all in the directory, and the
\* densities of its models are numbers
LoaderGridsFound(f) ==
    IF f = "load_models"
    THEN /\ args.models # <<>>
         /\ \A i \in 1..Len(args.models) :
                LET sn == split_underscore(args.models[i])[7]
                IN  /\ float_ok(sn)
                    /\ LOCALDIR \o <<"/">>
                           \o load_betabn_model_file(<<"Carbon">>, <<"1.5d3">>, LoaderTe,
                                                     rstrip_0(sn), <<>>) \in disk
    ELSE /\ args.dict.Te # <<>>
         /\ float_ok(args.dens)
         /\ BatchMissing(f) = {}

\* the files of the directory bn2
Bn2Files == {f \in disk : GlobMatch(LOCALDIR \o <<"/", "bn2", "/", "*", "_dat">>, f)}

\* C30 (as claimed): no caller of load_bn ends with the TypeError of a call
\* that load_bn's signature does not accept, and load_bn_all returns
\* [Te, ne, Tr, data] with one entry for each file of the directory bn2.
C30_CallersBindLoadBn ==
    /\ \A f \in {"load_bn_all", "load_bn_dict", "kappa_line", "make_betabn", "make_betabn2"} :
           ret[f] # Raise("TypeError")
    /\ ret["load_bn_all"] # NoRet =>
           /\ ret["load_bn_all"].kind = "return"
           /\ \A c \in 1..4 : Len(ret["load_bn_all"].val[c]) = Cardinality(Bn2Files)

\* C28 (as claimed): a batch loader whose grids are all found returns, each
\* model's columns having the width of the output array: n_max - n_min + 1
\* for load_bn_dict, n_max - n_min for load_itau_dict and n_max for
\* load_models.
C28_RowsFillTheArray ==
    /\ ret["load_bn_dict"] # NoRet /\ LoaderGridsFound("load_bn_dict") =>
           /\ ret["load_bn_dict"].kind = "return"
           /\ \A i \in 1..Len(args.dict.Te) :
                  Len(ret["load_bn_dict"].val[i]) = args.n_max - args.n_min + 1
    /\ ret["load_itau_dict"] # NoRet /\ LoaderGridsFound("load_itau_dict") =>
           /\ ret["load_itau_dict"].kind = "return"
           /\ \A i \in 1..Len(args.dict.Te) :
                  Len(ret["load_itau_dict"].val[i][1]) = args.n_max - args.n_min
    /\ ret["load_models"] # NoRet /\ LoaderGridsFound("load_models") =>
           /\ ret["load_models"].kind = "return"
           /\ \A i \in 1..Len(args.models) :
                  Len(ret["load_models"].val[4][i][1]) = args.n_all

(***************************************************************************)
(* stack_cubes.py: one call of stack_cubes on a directory of up to         *)
(* MaxCubes cubes.  The velocity axis of a cube starts at 0.3 in steps of  *)
(* 0.2 and has 5 to MaxChannels channels; disk maps the name of a file to  *)
(* its header (and, for a file that stack_cubes wrote, its data).          *)
(***************************************************************************)
MaxCubes == 2

MaxChannels == 6

StackFns == {"stack_cubes"}

\* the doubles 0.0, 0.2, 0.3, 0.9, 1.1 and 1.3, by their tenths
Tenth == [k \in {0, 2, 3, 9, 11, 13} |-> PyRound[ZInt[k], NPow10[1]]]

CubeName(i) == <<"cube", Digits[i + 1], ".fits">>

CubeNames == {CubeName(i) : i \in 1..MaxCubes}

CubeHeaders(t) == [CRVAL3 : {t[3]}, CDELT3 : {t[2]}, CRPIX3 : {1}, NAXIS3 : 5..MaxChannels]

\* no weight list, or the list that gives cube i the weight i
WeightLists ==
    {[given |-> FALSE],
     [given |-> TRUE, w |-> [c \in CubeNames |-> CHOOSE i \in 1..MaxCubes : CubeName(i) = c]]}

StackInit ==
    /\ \E t \in {Tenth} :
           /\ args \in [cubes : {<<"cube", "*", ".fits">>}, outfits : {<<"stack">>},
                        vmin : {t[9]}, vmax : {t[11], t[13]}, dv : {t[0], t[2]},
                        weight_list : WeightLists, algo : {"channel", "vector"}]
           /\ disk \in UNION {[S -> CubeHeaders(t)] : S \in SUBSET CubeNames}
    /\ ret = [f \in StackFns |-> NoRet]
    /\ reads = <<>>

\* the directory after the files of written have been written
StackWritten(written) ==
    LET names == {written[i][1] : i \in 1..Len(written)}
    IN  [f \in DOMAIN disk \cup names |->
            IF f \in names THEN written[CHOOSE i \in 1..Len(written) : written[i][1] = f][2]
            ELSE disk[f]]

Call_stack_cubes ==
    /\ ret["stack_cubes"] = NoRet
    /\ \E listing \in Listings(DOMAIN disk) :
           \E out \in {stack_cubes(args.cubes, args.outfits, args.vmax, args.vmin, args.dv,
                                   args.weight_list, args.algo, disk, listing)} :
               /\ ret' = [ret EXCEPT !["stack_cubes"] = out.ret]
               /\ disk' = StackWritten(out.files)
               /\ reads' = reads \o out.reads
    /\ UNCHANGED args

StackNext == Call_stack_cubes

SpecStack == StackInit /\ [][StackNext]_vars

StackFile == <<"stack", ".fits">>

\* the cubes of a sequence of terms
StackCubes(terms) == {terms[i].cube : i \in 1..Len(terms)}

\* C26 (as claimed): in every channel of a stack that was written, the cubes
\* whose resampled data were added are the cubes whose weight was added: a
\* cube that was skipped in a channel adds no weight to it.
C26_WeightOfAddedCubesOnly ==
    StackFile \in DOMAIN disk =>
        \A k \in 1..Len(disk[StackFile].data) :
            StackCubes(disk[StackFile].data[k].num) = StackCubes(disk[StackFile].data[k].den)

\* C29 (as claimed): a call with a velocity width dv other than 0, on a
\* directory that holds a cube, does not end on a name that is not bound.
C29_NonzeroWidthStacks ==
    ret["stack_cubes"] # NoRet /\ args.dv # PyOfInt[0] /\ DOMAIN disk # {} =>
        ret["stack_cubes"] # Raise("UnboundLocalError")
=============================================================================
